---- MODULE Spec2Model ----
(***************************************************************************)
(* A model of the trading-signal-bot pipeline: the dedup/cooldown store,   *)
(* the Telegram delivery queue, the orchestrator's emission path and the   *)
(* pending-setup (chain) state machine.                                    *)
(*                                                                         *)
(* Time is a natural number of ticks.  The wall clock (utc_now) is `now`.  *)
(***************************************************************************)
EXTENDS Integers, Sequences, FiniteSets, TLC

VARIABLES
    now,            \* utils.utc_now(): the wall clock, in ticks
    dedupState,     \* DedupStore._state: [idempotency_keys, cooldown_keys]
    dedupFile,      \* the persisted state file of the DedupStore
    lastRecorded,   \* history: idempotency key -> time of its latest record()
    lastShouldEmit  \* the should_emit call that has just returned: signal,
                    \* result (cleared by the next operation)

dedupVars == <<now, dedupState, dedupFile, lastRecorded, lastShouldEmit>>

VARIABLES
    config,         \* the options the StrategyEvaluator is built with
    bt,             \* backtester: position of run_time_based_backtest's loop
    pending_map,    \* backtester: run_time_based_backtest's pending_map
    bt_emitted,     \* backtester: the signals the last _advance_pending emitted
    bt_last         \* history: the last _advance_pending call: the map and the
                    \* snapshot it was given, and the stage-1 bar of each setup

btVars == <<bt, pending_map, bt_emitted, bt_last>>

VARIABLES
    trig            \* the evaluate_m15_triggers call that has just returned

trigVars == <<trig>>

VARIABLES
    mt5,            \* data source: close time and indicator tail of the latest
                    \* closed confirmation bar, close time of the latest
                    \* closed primary bar
    pending_setups, \* TradingSignalBotApp._pending_setups[symbol]
    last_processed_m15_close,   \* ..._last_processed_m15_close[symbol]
    chain_emitted,  \* the signals _evaluate_pending_chain_signal last handed
                    \* to _emit_signals
    chain_last      \* history: the _evaluate_pending_chain_signal run that has
                    \* just returned

chainVars == <<mt5, pending_setups, last_processed_m15_close, chain_emitted,
               chain_last>>

VARIABLES
    proc,           \* the bot process: where it is in startup / the M15-only
                    \* loop, and whether it runs with --dry-run
    feed,           \* data source: what evaluate_all yields for each of the
                    \* latest closed primary bars (oldest first; the last one
                    \* closed at `now`)
    queue_file,     \* TelegramNotifier._queue_file
    delivered,      \* history: idempotency keys the transport has received
    duplicated,     \* history: idempotency keys the transport received twice
    accepted,       \* history: idempotency keys that passed should_emit
    dropped         \* history: <<key, reason>> for each signal the queue
                    \* dropped because of its limits (retry count, size)

deliveryVars == <<proc, feed, queue_file, delivered, duplicated, accepted,
                  dropped>>

VARIABLES
    notifier,       \* a TelegramNotifier on its own: its settings and the
                    \* items of its queue file
    ncall           \* history: the send_signal / retry_failed_queue call that
                    \* has just returned: what the transport answered, what
                    \* the call did with each item

notifierVars == <<notifier, ncall>>

VARIABLES
    backoff         \* a _send_message_with_retry call on its own: max_retries,
                    \* what the transport answers to each post, and, once the
                    \* call has returned, its result and its waits

backoffVars == <<backoff>>

VARIABLES
    worker          \* TradingSignalBotApp.run_forever: which loop it runs,
                    \* where it is in the loop and in the cycle, and, as
                    \* history, the symbols the current and the last completed
                    \* pass called and those that raised, and a send whose
                    \* record did not follow

workerVars == <<worker>>

VARIABLES
    disk,           \* the files of the two persisted stores: for each store
                    \* its file, the temporary file next to it and the
                    \* .corrupt backup next to it
    stores,         \* the process holding the stores: whether each is
                    \* constructed, and the state the DedupStore has in memory
    last_io         \* history: the store operation that has just run: what
                    \* it found in the file, what it wrote, where the process
                    \* was killed

storeVars == <<disk, stores, last_io>>

VARIABLES
    conc            \* a DedupStore shared by threads: who holds its lock, the
                    \* keys in self._state and in the state file, where each
                    \* thread is in its call, and, as history, the keys
                    \* whose record() has returned

concVars == <<conc>>

VARIABLES
    rep             \* record and _enqueue_failed applied repeatedly with one
                    \* signal: the dedup state and the queue items they act
                    \* on, how often each was applied, and, as history, the
                    \* state and the items after the first application

repeatVars == <<rep>>

VARIABLES
    ev              \* one call of evaluate_all or evaluate_m1_only: the tail
                    \* of the M15 window, the M1 window, the M15 close time,
                    \* which function was called and the signals it returned

evalVars == <<ev>>

VARIABLES
    cyc             \* one pass of the loop body of _process_symbol for one
                    \* closed M15 bar: the windows it reads, the pending
                    \* setups before and after, whether it ran, and the
                    \* triggers and the signals of the pass

cycleVars == <<cyc>>

VARIABLES
    risk            \* one signal built with its risk context: the risk
                    \* configuration, the ATR of the M15 window, the
                    \* direction, the entry price, the M15 fast average, and
                    \* the risk fields of the signal

riskVars == <<risk>>

VARIABLES
    cross           \* one call of _cross_at and the call with the two series
                    \* swapped: the series, the index and the two results

crossVars == <<cross>>

VARIABLES
    osc             \* one call of calculate_stochastic: the close series, the
                    \* three periods, and the raw %K, %K and %D it computed

oscVars == <<osc>>

VARIABLES
    conf            \* one start of the program: the indicator section of the
                    \* configuration file, the columns of the windows handed
                    \* to the evaluator, how far the start got, and the
                    \* signals of the first evaluation

confVars == <<conf>>

VARIABLES
    ser             \* one signal written with to_dict and read back with
                    \* from_dict, whole or with one key left out: the signal,
                    \* the key and the result

serVars == <<ser>>

VARIABLES
    live            \* the candle source and the bar handlers of one symbol: the
                    \* forming bar of each timeframe, the cursors, the
                    \* evaluations made so far and the bars the backfill cap
                    \* cut off

liveVars == <<live>>

VARIABLES
    warmup          \* one start of the program: the periods and the candle
                    \* buffer of the configuration file, how far the start
                    \* got, and what _build_m15_context made of a frame

warmVars == <<warmup>>

VARIABLES
    lck             \* the lock file and the processes entering and leaving
                    \* single_instance_lock: where each of them is, and what
                    \* was removed by whom

lockVars == <<lck>>

VARIABLES
    summ  \* the emission path with summary merging: enabled, now, dedup, sent,
          \* last_merged (constituents of the summaries the latest emission
          \* sent), raised

sumVars == <<summ>>

VARIABLES
    adv  \* advance_pending_setup applied twice with one snapshot: cfg, pending,
         \* snapshot, calls, and what the first and the second call returned

advVars == <<adv>>

vars == <<dedupVars, config, btVars, trigVars, chainVars, deliveryVars,
          notifierVars, backoffVars, workerVars, storeVars, concVars,
          repeatVars, evalVars, cycleVars, riskVars, crossVars, oscVars,
          confVars, serVars, liveVars, warmVars, lockVars, sumVars, advVars>>

\* what the operations of one component leave alone
othersOfDedup == <<config, btVars, trigVars, chainVars, deliveryVars,
                   notifierVars, backoffVars, workerVars, storeVars, concVars,
                   repeatVars, evalVars, cycleVars, riskVars, crossVars,
                   oscVars, confVars, serVars, liveVars, warmVars, lockVars,
                   sumVars, advVars>>
othersOfBt == <<dedupVars, config, trigVars, chainVars, deliveryVars,
                notifierVars, backoffVars, workerVars, storeVars, concVars,
                repeatVars, evalVars, cycleVars, riskVars, crossVars, oscVars,
                confVars, serVars, liveVars, warmVars, lockVars, sumVars,
                advVars>>
othersOfTrig == <<dedupVars, config, btVars, chainVars, deliveryVars,
                  notifierVars, backoffVars, workerVars, storeVars, concVars,
                  repeatVars, evalVars, cycleVars, riskVars, crossVars,
                  oscVars, confVars, serVars, liveVars, warmVars, lockVars,
                  sumVars, advVars>>
othersOfChain == <<dedupVars, config, btVars, trigVars, deliveryVars,
                   notifierVars, backoffVars, workerVars, storeVars, concVars,
                   repeatVars, evalVars, cycleVars, riskVars, crossVars,
                   oscVars, confVars, serVars, liveVars, warmVars, lockVars,
                   sumVars, advVars>>
othersOfDelivery == <<lastRecorded, lastShouldEmit, config, btVars, trigVars,
                      mt5, pending_setups, chain_emitted, chain_last,
                      notifierVars, backoffVars, workerVars, storeVars,
                      concVars, repeatVars, evalVars, cycleVars, riskVars,
                      crossVars, oscVars, confVars, serVars, liveVars,
                      warmVars, lockVars, sumVars, advVars>>
othersOfNotifier == <<dedupVars, config, btVars, trigVars, chainVars,
                      deliveryVars, backoffVars, workerVars, storeVars,
                      concVars, repeatVars, evalVars, cycleVars, riskVars,
                      crossVars, oscVars, confVars, serVars, liveVars,
                      warmVars, lockVars, sumVars, advVars>>
othersOfBackoff == <<dedupVars, config, btVars, trigVars, chainVars,
                     deliveryVars, notifierVars, workerVars, storeVars,
                     concVars, repeatVars, evalVars, cycleVars, riskVars,
                     crossVars, oscVars, confVars, serVars, liveVars,
                     warmVars, lockVars, sumVars, advVars>>
othersOfWorker == <<dedupVars, config, btVars, trigVars, chainVars,
                    deliveryVars, notifierVars, backoffVars, storeVars,
                    concVars, repeatVars, evalVars, cycleVars, riskVars,
                    crossVars, oscVars, confVars, serVars, liveVars, warmVars,
                    lockVars, sumVars, advVars>>
othersOfStore == <<dedupVars, config, btVars, trigVars, chainVars,
                   deliveryVars, notifierVars, backoffVars, workerVars,
                   concVars, repeatVars, evalVars, cycleVars, riskVars,
                   crossVars, oscVars, confVars, serVars, liveVars, warmVars,
                   lockVars, sumVars, advVars>>
othersOfConc == <<dedupVars, config, btVars, trigVars, chainVars,
                  deliveryVars, notifierVars, backoffVars, workerVars,
                  storeVars, repeatVars, evalVars, cycleVars, riskVars,
                  crossVars, oscVars, confVars, serVars, liveVars, warmVars,
                  lockVars, sumVars, advVars>>
othersOfRepeat == <<dedupVars, config, btVars, trigVars, chainVars,
                    deliveryVars, notifierVars, backoffVars, workerVars,
                    storeVars, concVars, evalVars, cycleVars, riskVars,
                    crossVars, oscVars, confVars, serVars, liveVars, warmVars,
                    lockVars, sumVars, advVars>>
othersOfEval == <<dedupVars, config, btVars, trigVars, chainVars,
                  deliveryVars, notifierVars, backoffVars, workerVars,
                  storeVars, concVars, repeatVars, cycleVars, riskVars,
                  crossVars, oscVars, confVars, serVars, liveVars, warmVars,
                  lockVars, sumVars, advVars>>
othersOfCycle == <<dedupVars, config, btVars, trigVars, chainVars,
                   deliveryVars, notifierVars, backoffVars, workerVars,
                   storeVars, concVars, repeatVars, evalVars, riskVars,
                   crossVars, oscVars, confVars, serVars, liveVars, warmVars,
                   lockVars, sumVars, advVars>>
othersOfRisk == <<dedupVars, config, btVars, trigVars, chainVars,
                  deliveryVars, notifierVars, backoffVars, workerVars,
                  storeVars, concVars, repeatVars, evalVars, cycleVars,
                  crossVars, oscVars, confVars, serVars, liveVars, warmVars,
                  lockVars, sumVars, advVars>>
othersOfCross == <<dedupVars, config, btVars, trigVars, chainVars,
                   deliveryVars, notifierVars, backoffVars, workerVars,
                   storeVars, concVars, repeatVars, evalVars, cycleVars,
                   riskVars, oscVars, confVars, serVars, liveVars, warmVars,
                   lockVars, sumVars, advVars>>
othersOfOsc == <<dedupVars, config, btVars, trigVars, chainVars, deliveryVars,
                 notifierVars, backoffVars, workerVars, storeVars, concVars,
                 repeatVars, evalVars, cycleVars, riskVars, crossVars,
                 confVars, serVars, liveVars, warmVars, lockVars, sumVars,
                 advVars>>
othersOfConf == <<dedupVars, config, btVars, trigVars, chainVars,
                  deliveryVars, notifierVars, backoffVars, workerVars,
                  storeVars, concVars, repeatVars, evalVars, cycleVars,
                  riskVars, crossVars, oscVars, serVars, liveVars, warmVars,
                  lockVars, sumVars, advVars>>
othersOfSer == <<dedupVars, config, btVars, trigVars, chainVars, deliveryVars,
                 notifierVars, backoffVars, workerVars, storeVars, concVars,
                 repeatVars, evalVars, cycleVars, riskVars, crossVars,
                 oscVars, confVars, liveVars, warmVars, lockVars, sumVars,
                 advVars>>
othersOfLive == <<dedupVars, config, btVars, trigVars, chainVars,
                  deliveryVars, notifierVars, backoffVars, workerVars,
                  storeVars, concVars, repeatVars, evalVars, cycleVars,
                  riskVars, crossVars, oscVars, confVars, serVars, warmVars,
                  lockVars, sumVars, advVars>>
othersOfWarm == <<dedupVars, config, btVars, trigVars, chainVars,
                  deliveryVars, notifierVars, backoffVars, workerVars,
                  storeVars, concVars, repeatVars, evalVars, cycleVars,
                  riskVars, crossVars, oscVars, confVars, serVars, liveVars,
                  lockVars, sumVars, advVars>>
othersOfLock == <<dedupVars, config, btVars, trigVars, chainVars,
                  deliveryVars, notifierVars, backoffVars, workerVars,
                  storeVars, concVars, repeatVars, evalVars, cycleVars,
                  riskVars, crossVars, oscVars, confVars, serVars, liveVars,
                  warmVars, sumVars, advVars>>
othersOfSum == <<dedupVars, config, btVars, trigVars, chainVars, deliveryVars,
                 notifierVars, backoffVars, workerVars, storeVars, concVars,
                 repeatVars, evalVars, cycleVars, riskVars, crossVars,
                 oscVars, confVars, serVars, liveVars, warmVars, lockVars,
                 advVars>>
othersOfAdv == <<dedupVars, config, btVars, trigVars, chainVars, deliveryVars,
                 notifierVars, backoffVars, workerVars, storeVars, concVars,
                 repeatVars, evalVars, cycleVars, riskVars, crossVars,
                 oscVars, confVars, serVars, liveVars, warmVars, lockVars,
                 sumVars>>

----------------------------------------------------------------------------
(* Bounds and configuration values of the model *)

\* telegram.max_retries: send attempts per message
MaxRetries == 1
\* telegram.max_failed_retry_count
MaxFailedRetryCount == 3
\* telegram.max_queue_size
MaxQueue == 2
\* number of primary bars the delivery path of the live loop runs over
MaxM15Bars == 2
\* number of confirmation bars a backtest runs over
MaxM1Bars == 4
\* last tick of the wall clock
MaxTime == 5
\* signal_dedup.cooldown_minutes, in ticks
CooldownTicks == 2
\* signal_dedup.retention_days, in ticks
RetentionTicks == 3

None == -1

Symbols == {"XAUUSD"}
Directions == {"BUY", "SELL"}

----------------------------------------------------------------------------
(* models.Signal *)

\* A signal of the direct-confirmation path: both bar times are set.
MakeSignal(symbol, direction, scenario, m15_bar, m1_bar) ==
    [symbol |-> symbol, direction |-> direction, scenario |-> scenario,
     m15_bar_time_utc |-> m15_bar, m1_bar_time_utc |-> m1_bar,
     matched_scenarios |-> {}]

\* Signal.idempotency_key: symbol|direction|scenario|bar, where the scenario
\* part of a merged signal is SUMMARY[sorted matched scenarios] and bar is the
\* primary bar time when there is one, else the confirmation bar time.
idempotency_key(s) ==
    LET bar_time == IF s.m15_bar_time_utc # None THEN s.m15_bar_time_utc
                    ELSE s.m1_bar_time_utc
    IN  IF s.matched_scenarios # {}
        THEN <<s.symbol, s.direction, "SUMMARY", s.matched_scenarios, bar_time>>
        ELSE <<s.symbol, s.direction, s.scenario, {}, bar_time>>

\* Signal.cooldown_key: symbol|direction
cooldown_key(s) == <<s.symbol, s.direction>>

\* the signals the store is exercised with
DedupSignals ==
    { MakeSignal(sym, d, d \o "_S1", b, b) :
        sym \in Symbols, d \in Directions, b \in {1, 2} }

----------------------------------------------------------------------------
(* repositories/dedup_store.py *)

EmptyMap == [k \in {} |-> 0]

\* no should_emit call has just returned
NoCall == [called |-> FALSE, signal |-> MakeSignal("XAUUSD", "BUY", "BUY_S1", 1, 1),
           result |-> FALSE]

DefaultState == [idempotency_keys |-> EmptyMap, cooldown_keys |-> EmptyMap]

Put(f, k, v) == [x \in (DOMAIN f) \cup {k} |-> IF x = k THEN v ELSE f[x]]

Restrict(f, S) == [x \in S |-> f[x]]

\* a mutant of _prune_in_memory: drops an idempotency entry one tick early
PruneEarly(state, current) ==
    LET expiry == current - RetentionTicks
        idem == state.idempotency_keys
        cool == state.cooldown_keys
    IN  [idempotency_keys |->
            Restrict(idem, {k \in DOMAIN idem : ~(idem[k] <= expiry)}),
         cooldown_keys |->
            Restrict(cool, {k \in DOMAIN cool :
                                ~((current - cool[k]) >= CooldownTicks)})]

\* DedupStore._prune_in_memory: drop idempotency entries recorded before
\* current - retention, and cooldown entries at least a cooldown window old.
_prune_in_memory(state, current) ==
    LET expiry == current - RetentionTicks
        idem == state.idempotency_keys
        cool == state.cooldown_keys
    IN  [idempotency_keys |->
            Restrict(idem, {k \in DOMAIN idem : ~(idem[k] < expiry)}),
         cooldown_keys |->
            Restrict(cool, {k \in DOMAIN cool :
                                ~((current - cool[k]) >= CooldownTicks)})]

\* a mutant of should_emit_result: the cooldown map is never consulted
ShouldEmitNoCooldown(state, signal, current) ==
    ~(idempotency_key(signal) \in DOMAIN state.idempotency_keys)

\* the value should_emit returns on the pruned state
should_emit_result(state, signal, current) ==
    IF idempotency_key(signal) \in DOMAIN state.idempotency_keys
    THEN FALSE
    ELSE IF cooldown_key(signal) \in DOMAIN state.cooldown_keys
         THEN ~((current - state.cooldown_keys[cooldown_key(signal)])
                    < CooldownTicks)
         ELSE TRUE

\* the state record() leaves: both maps written, then pruned
record_state(state, signal, current) ==
    _prune_in_memory(
        [idempotency_keys |->
            Put(state.idempotency_keys, idempotency_key(signal), current),
         cooldown_keys |->
            Put(state.cooldown_keys, cooldown_key(signal), current)],
        current)

\* DedupStore.should_emit
should_emit(signal) ==
    LET pruned == _prune_in_memory(dedupState, now)
    IN  /\ dedupState' = pruned
        /\ lastShouldEmit' = [called |-> TRUE, signal |-> signal,
                              result |-> should_emit_result(pruned, signal, now)]
        /\ UNCHANGED <<now, dedupFile, lastRecorded, othersOfDedup>>

\* DedupStore.record
record(signal) ==
    /\ dedupState' = record_state(dedupState, signal, now)
    /\ dedupFile' = dedupState'
    /\ lastRecorded' = Put(lastRecorded, idempotency_key(signal), now)
    /\ lastShouldEmit' = NoCall
    /\ UNCHANGED <<now, othersOfDedup>>

\* DedupStore.load_state on a readable state file (a restart of the store)
load_state ==
    /\ dedupState' = _prune_in_memory(dedupFile, now)
    /\ dedupFile' = dedupState'
    /\ lastShouldEmit' = NoCall
    /\ UNCHANGED <<now, lastRecorded, othersOfDedup>>

\* the wall clock advances
Tick ==
    /\ now < MaxTime
    /\ now' = now + 1
    /\ lastShouldEmit' = NoCall
    /\ UNCHANGED <<dedupState, dedupFile, lastRecorded, othersOfDedup>>


\* DedupStore.__init__ with no state file: load_state persists the default
DedupStoreInit ==
    /\ now = 0
    /\ dedupState = DefaultState
    /\ dedupFile = DefaultState
    /\ lastRecorded = EmptyMap
    /\ lastShouldEmit = NoCall

----------------------------------------------------------------------------
(* strategy.py: the evaluator on the tail of the indicator series            *)
(*                                                                           *)
(* The evaluator reads the indicator series (fast and slow LWMA, %K, %D)     *)
(* only at the last two bars of the window.  A tail holds those values as    *)
(* pairs <<previous, current>>, plus the ADX at the last bar.                *)

\* an undefined indicator value (numpy NaN)
NaN == -2

BuyZone == <<10, 20>>
SellZone == <<80, 90>>

FastPairs == {<<1, 1>>, <<1, 3>>, <<3, 1>>, <<3, 3>>, <<1, NaN>>}
SlowPairs == {<<2, 2>>}
\* <<%K pair, %D pair>>: a cross above in the buy zone, no cross in the buy
\* zone, a cross below in the sell zone, no cross in the sell zone, a cross
\* above into the sell zone, a cross below into the buy zone
KDPairs == {<< <<15, 15>>, <<50, 12>> >>, << <<15, 15>>, <<50, 50>> >>,
            << <<85, 85>>, <<50, 88>> >>, << <<85, 85>>, <<50, 50>> >>,
            << <<15, 85>>, <<50, 50>> >>, << <<85, 15>>, <<50, 50>> >>}
AdxValues == {20, 30}
MinAdx == 25

MakeTail(fast, slow, kd, adx) ==
    [fast |-> fast, slow |-> slow, k |-> kd[1], d |-> kd[2], adx |-> adx]

\* the tails of a primary-timeframe window
M15Tails ==
    {MakeTail(f, s, kd, a) :
        f \in FastPairs, s \in SlowPairs, kd \in KDPairs, a \in AdxValues}

\* the tails of a confirmation-timeframe window, where no code reads the ADX
M1Tails == {t \in M15Tails : t.adx = 30 /\ t.fast # <<3, 3>>}

IsNaN(x) == x = NaN

\* a variant whose comparisons at the current bar are not strict
CrossAtNotStrict(a, b) ==
    IF IsNaN(a[1]) \/ IsNaN(a[2]) \/ IsNaN(b[1]) \/ IsNaN(b[2])
    THEN <<FALSE, FALSE>>
    ELSE << a[1] <= b[1] /\ a[2] >= b[2], a[1] >= b[1] /\ a[2] <= b[2] >>

\* strategy._cross_at once idx >= 1, on the values <<previous, current>> of
\* each series: <<crossed_above, crossed_below>>
_cross_at(a, b) ==
    IF IsNaN(a[1]) \/ IsNaN(a[2]) \/ IsNaN(b[1]) \/ IsNaN(b[2])
    THEN <<FALSE, FALSE>>
    ELSE << a[1] <= b[1] /\ a[2] > b[2], a[1] >= b[1] /\ a[2] < b[2] >>

\* strategy._cross_at(series_a, series_b, idx), idx counted from 0 as in
\* the code; position p of a sequence is position p - 1 of the series
series_cross_at(series_a, series_b, idx) ==
    IF idx < 1 THEN <<FALSE, FALSE>>
    ELSE _cross_at(<<series_a[idx], series_a[idx + 1]>>,
                   <<series_b[idx], series_b[idx + 1]>>)

\* indicators.stochastic.stoch_in_zone
stoch_in_zone(k_value, zone) == zone[1] <= k_value /\ k_value <= zone[2]

\* StrategyEvaluator._build_m15_context: None when one of the eight values is
\* undefined, else the trend order and the oscillator cross at the last bar
m15_context_defined(tail) ==
    \A i \in 1..2 : ~IsNaN(tail.fast[i]) /\ ~IsNaN(tail.slow[i])
                        /\ ~IsNaN(tail.k[i]) /\ ~IsNaN(tail.d[i])

_build_m15_context(tail) ==
    [order |-> IF tail.fast[2] = tail.slow[2] THEN "neutral"
               ELSE IF tail.fast[2] > tail.slow[2] THEN "bullish" ELSE "bearish",
     stoch_cross_above |-> _cross_at(tail.k, tail.d)[1],
     stoch_cross_below |-> _cross_at(tail.k, tail.d)[2]]

\* a variant that lets an undefined ADX pass
PassesRegimeFilterUndefined(cfg, tail) ==
    IF ~cfg.regime_filter_enabled THEN TRUE
    ELSE IF IsNaN(tail.adx) THEN TRUE ELSE tail.adx >= MinAdx

\* StrategyEvaluator._passes_regime_filter
_passes_regime_filter(cfg, tail) ==
    IF ~cfg.regime_filter_enabled THEN TRUE
    ELSE IF IsNaN(tail.adx) THEN FALSE ELSE tail.adx >= MinAdx

\* strategy.M15Trigger
M15Trigger(direction, mode, m15_close_time_utc, tail) ==
    [direction |-> direction, mode |-> mode,
     m15_close_time_utc |-> m15_close_time_utc,
     m15_lwma_fast |-> tail.fast[2], m15_lwma_slow |-> tail.slow[2],
     m15_stoch_k |-> tail.k[2], m15_stoch_d |-> tail.d[2]]

\* StrategyEvaluator.evaluate_m15_triggers: the list of triggers, in the order
\* the code appends them
evaluate_m15_triggers(cfg, tail, m15_close_time_utc) ==
    IF ~m15_context_defined(tail) THEN << >>
    ELSE
    LET context == _build_m15_context(tail)
        lwma_cross == _cross_at(tail.fast, tail.slow)
        normal_buy == /\ context.order = "bullish"
                      /\ stoch_in_zone(tail.k[2], BuyZone)
                      /\ context.stoch_cross_above
        normal_sell == /\ context.order = "bearish"
                       /\ stoch_in_zone(tail.k[2], SellZone)
                       /\ context.stoch_cross_below
        hp_buy == normal_buy /\ lwma_cross[1]
        hp_sell == normal_sell /\ lwma_cross[2]
        T(d, m) == <<M15Trigger(d, m, m15_close_time_utc, tail)>>
    IN  IF (normal_buy \/ normal_sell \/ hp_buy \/ hp_sell)
            /\ ~_passes_regime_filter(cfg, tail)
        THEN << >>
        ELSE (IF normal_buy THEN T("BUY", "NORMAL") ELSE << >>)
             \o (IF normal_sell THEN T("SELL", "NORMAL") ELSE << >>)
             \o (IF hp_buy THEN T("BUY", "HIGH_PROBABILITY") ELSE << >>)
             \o (IF hp_sell THEN T("SELL", "HIGH_PROBABILITY") ELSE << >>)

\* StrategyEvaluator.latest_m1_snapshot: None when a current value is undefined
m1_snapshot_defined(tail) ==
    ~IsNaN(tail.fast[2]) /\ ~IsNaN(tail.slow[2])
        /\ ~IsNaN(tail.k[2]) /\ ~IsNaN(tail.d[2])

latest_m1_snapshot(tail, bar_time_utc) ==
    [bar_time_utc |-> bar_time_utc,
     lwma_fast |-> tail.fast[2], lwma_slow |-> tail.slow[2],
     stoch_k |-> tail.k[2], stoch_d |-> tail.d[2],
     lwma_cross_above |-> _cross_at(tail.fast, tail.slow)[1],
     lwma_cross_below |-> _cross_at(tail.fast, tail.slow)[2],
     stoch_cross_above |-> _cross_at(tail.k, tail.d)[1],
     stoch_cross_below |-> _cross_at(tail.k, tail.d)[2],
     stoch_in_buy_zone |-> stoch_in_zone(tail.k[2], BuyZone),
     stoch_in_sell_zone |-> stoch_in_zone(tail.k[2], SellZone)]

\* models.PendingSetup as _register_m15_triggers builds it (last_updated_utc,
\* which no code reads, is left out)
PendingSetup(symbol, trigger) ==
    [symbol |-> symbol, direction |-> trigger.direction, mode |-> trigger.mode,
     state |-> "WAIT_M1_LWMA",
     m15_trigger_time_utc |-> trigger.m15_close_time_utc,
     m15_lwma_fast |-> trigger.m15_lwma_fast,
     m15_lwma_slow |-> trigger.m15_lwma_slow,
     m15_stoch_k |-> trigger.m15_stoch_k,
     m15_stoch_d |-> trigger.m15_stoch_d]

\* StrategyEvaluator._make_chain_signal
_make_chain_signal(pending, snapshot) ==
    [symbol |-> pending.symbol, direction |-> pending.direction,
     scenario |-> IF pending.direction = "BUY"
                  THEN (IF pending.mode = "HIGH_PROBABILITY"
                        THEN "BUY_CHAIN_HP" ELSE "BUY_CHAIN")
                  ELSE (IF pending.mode = "HIGH_PROBABILITY"
                        THEN "SELL_CHAIN_HP" ELSE "SELL_CHAIN"),
     m15_bar_time_utc |-> pending.m15_trigger_time_utc,
     m1_bar_time_utc |-> snapshot.bar_time_utc,
     matched_scenarios |-> {},
     m15_lwma_fast |-> pending.m15_lwma_fast,
     m15_lwma_slow |-> pending.m15_lwma_slow,
     m15_stoch_k |-> pending.m15_stoch_k,
     m15_stoch_d |-> pending.m15_stoch_d,
     m1_lwma_fast |-> snapshot.lwma_fast, m1_lwma_slow |-> snapshot.lwma_slow,
     m1_stoch_k |-> snapshot.stoch_k, m1_stoch_d |-> snapshot.stoch_d]

\* the pair advance_pending_setup returns: (pending, None) keeps the setup,
\* (None, signal) completes it
Kept(pending) == [kept |-> TRUE, pending |-> pending, emitted |-> FALSE]

Completed(pending, snapshot) ==
    [kept |-> FALSE, emitted |-> TRUE,
     signal |-> _make_chain_signal(pending, snapshot)]

\* a mutant of _advance_buy_pending: stage 1 lacks the guard against an
\* oscillator cross in the setup's own direction on the same bar
AdvanceBuyNoSameBarGuard(cfg, pending, snapshot) ==
    IF pending.state = "WAIT_M1_LWMA"
    THEN IF ~snapshot.lwma_cross_above THEN Kept(pending)
         ELSE IF cfg.require_opposite_zone_on_lwma_cross
                    /\ ~snapshot.stoch_in_sell_zone THEN Kept(pending)
         ELSE Kept([pending EXCEPT !.state = "WAIT_M1_STOCH"])
    ELSE IF pending.state = "WAIT_M1_STOCH"
            /\ snapshot.stoch_cross_above /\ snapshot.stoch_in_buy_zone
         THEN Completed(pending, snapshot)
         ELSE Kept(pending)

\* a mutant of _advance_buy_pending: a setup still waiting for the average
\* cross completes on an oscillator cross in the buy zone
AdvanceBuySkipStage(cfg, pending, snapshot) ==
    IF snapshot.stoch_cross_above /\ snapshot.stoch_in_buy_zone
    THEN Completed(pending, snapshot)
    ELSE IF pending.state = "WAIT_M1_LWMA"
    THEN IF ~snapshot.lwma_cross_above THEN Kept(pending)
         ELSE IF cfg.require_opposite_zone_on_lwma_cross
                    /\ ~snapshot.stoch_in_sell_zone THEN Kept(pending)
         ELSE IF snapshot.stoch_cross_above THEN Kept(pending)
         ELSE Kept([pending EXCEPT !.state = "WAIT_M1_STOCH"])
    ELSE Kept(pending)

\* a mutant of _advance_buy_pending: stage 2 does not ask for the buy zone
AdvanceBuyNoZone(cfg, pending, snapshot) ==
    IF pending.state = "WAIT_M1_LWMA"
    THEN IF ~snapshot.lwma_cross_above THEN Kept(pending)
         ELSE IF cfg.require_opposite_zone_on_lwma_cross
                    /\ ~snapshot.stoch_in_sell_zone THEN Kept(pending)
         ELSE IF snapshot.stoch_cross_above THEN Kept(pending)
         ELSE Kept([pending EXCEPT !.state = "WAIT_M1_STOCH"])
    ELSE IF pending.state = "WAIT_M1_STOCH" /\ snapshot.stoch_cross_above
         THEN Completed(pending, snapshot)
         ELSE Kept(pending)

\* StrategyEvaluator._advance_buy_pending
_advance_buy_pending(cfg, pending, snapshot) ==
    IF pending.state = "WAIT_M1_LWMA"
    THEN IF ~snapshot.lwma_cross_above THEN Kept(pending)
         ELSE IF cfg.require_opposite_zone_on_lwma_cross
                    /\ ~snapshot.stoch_in_sell_zone THEN Kept(pending)
         ELSE IF snapshot.stoch_cross_above THEN Kept(pending)
         ELSE Kept([pending EXCEPT !.state = "WAIT_M1_STOCH"])
    ELSE IF pending.state = "WAIT_M1_STOCH"
            /\ snapshot.stoch_cross_above /\ snapshot.stoch_in_buy_zone
         THEN Completed(pending, snapshot)
         ELSE Kept(pending)

\* a mutant of _advance_sell_pending: stage 1 lacks the guard against an
\* oscillator cross in the setup's own direction on the same bar
AdvanceSellNoSameBarGuard(cfg, pending, snapshot) ==
    IF pending.state = "WAIT_M1_LWMA"
    THEN IF ~snapshot.lwma_cross_below THEN Kept(pending)
         ELSE IF cfg.require_opposite_zone_on_lwma_cross
                    /\ ~snapshot.stoch_in_buy_zone THEN Kept(pending)
         ELSE Kept([pending EXCEPT !.state = "WAIT_M1_STOCH"])
    ELSE IF pending.state = "WAIT_M1_STOCH"
            /\ snapshot.stoch_cross_below /\ snapshot.stoch_in_sell_zone
         THEN Completed(pending, snapshot)
         ELSE Kept(pending)

\* StrategyEvaluator._advance_sell_pending
_advance_sell_pending(cfg, pending, snapshot) ==
    IF pending.state = "WAIT_M1_LWMA"
    THEN IF ~snapshot.lwma_cross_below THEN Kept(pending)
         ELSE IF cfg.require_opposite_zone_on_lwma_cross
                    /\ ~snapshot.stoch_in_buy_zone THEN Kept(pending)
         ELSE IF snapshot.stoch_cross_below THEN Kept(pending)
         ELSE Kept([pending EXCEPT !.state = "WAIT_M1_STOCH"])
    ELSE IF pending.state = "WAIT_M1_STOCH"
            /\ snapshot.stoch_cross_below /\ snapshot.stoch_in_sell_zone
         THEN Completed(pending, snapshot)
         ELSE Kept(pending)

\* StrategyEvaluator.advance_pending_setup(pending, snapshot, price)
advance_pending_setup(cfg, pending, snapshot) ==
    IF pending.direction = "BUY"
    THEN _advance_buy_pending(cfg, pending, snapshot)
    ELSE _advance_sell_pending(cfg, pending, snapshot)

\* the parameters advance_pending_setup declares, besides self
advance_pending_setup_params == {"pending", "snapshot", "price"}

\* a call of advance_pending_setup with the keyword arguments kwargs: Python
\* raises TypeError before the body runs when a keyword is not a parameter
call_advance_pending_setup(kwargs, cfg, pending, snapshot) ==
    IF kwargs \subseteq advance_pending_setup_params
    THEN [raised |-> FALSE, result |-> advance_pending_setup(cfg, pending, snapshot)]
    ELSE [raised |-> TRUE, result |-> Kept(pending)]

----------------------------------------------------------------------------
(* A pending map: a Python dict keyed by (direction, mode), modelled as the  *)
(* sequence of its values in insertion order.                                *)

SetupKey(p) == <<p.direction, p.mode>>

DictKeys(m) == {SetupKey(m[i]) : i \in 1..Len(m)}

DictGet(m, key) == m[CHOOSE i \in 1..Len(m) : SetupKey(m[i]) = key]

\* m[key] = value: in place when the key is present, else appended
DictSet(m, value) ==
    IF SetupKey(value) \in DictKeys(m)
    THEN [i \in 1..Len(m) |->
            IF SetupKey(m[i]) = SetupKey(value) THEN value ELSE m[i]]
    ELSE Append(m, value)

\* {key: value for key, value in m.items() if value.direction is not d}
DictWithoutDirection(m, d) == SelectSeq(m, LAMBDA p : p.direction # d)

TriggerDirections(triggers) == {triggers[i].direction : i \in 1..Len(triggers)}

RECURSIVE StoreTriggers(_, _, _)
StoreTriggers(m, symbol, triggers) ==
    IF triggers = << >> THEN m
    ELSE StoreTriggers(DictSet(m, PendingSetup(symbol, Head(triggers))),
                       symbol, Tail(triggers))

\* a mutant of register_triggers: an opposite-direction setup is kept
RegisterKeepOpposite(m, symbol, triggers) == StoreTriggers(m, symbol, triggers)

\* a mutant of register_triggers: BUY setups survive a SELL trigger
RegisterKeepBuy(m, symbol, triggers) ==
    LET dirs == TriggerDirections(triggers)
        m1 == IF "BUY" \in dirs THEN DictWithoutDirection(m, "SELL") ELSE m
    IN  StoreTriggers(m1, symbol, triggers)

\* backtester.engine._register_triggers and main._register_m15_triggers (the
\* same code): drop the setups of the opposite direction, then store a fresh
\* setup per trigger
register_triggers(m, symbol, triggers) ==
    LET dirs == TriggerDirections(triggers)
        m1 == IF "BUY" \in dirs THEN DictWithoutDirection(m, "SELL") ELSE m
        m2 == IF "SELL" \in dirs THEN DictWithoutDirection(m1, "BUY") ELSE m1
    IN  StoreTriggers(m2, symbol, triggers)

----------------------------------------------------------------------------
(* backtester/engine.py *)

\* the keyword arguments of engine._advance_pending's call
engine_call_kwargs == {"pending", "snapshot", "price"}

\* backtester.engine._advance_pending: <<updated, emitted>>
RECURSIVE _advance_pending(_, _, _)
_advance_pending(cfg, m, snapshot) ==
    IF m = << >> THEN [updated |-> << >>, emitted |-> << >>]
    ELSE LET call == call_advance_pending_setup(engine_call_kwargs, cfg,
                                                Head(m), snapshot)
             rest == _advance_pending(cfg, Tail(m), snapshot)
         IN  [updated |-> (IF call.result.kept THEN <<call.result.pending>>
                           ELSE << >>) \o rest.updated,
              emitted |-> (IF call.result.emitted THEN <<call.result.signal>>
                           ELSE << >>) \o rest.emitted]

Configs == [require_opposite_zone_on_lwma_cross : BOOLEAN,
            regime_filter_enabled : BOOLEAN]

BtSymbol == "XAUUSD"

\* what the last step of the loop saw and did: whether the setups were
\* advanced, the map and the snapshot they were advanced with, the bar at
\* which each setup waiting for the oscillator cross got there, and the
\* triggers the step registered with the map they were registered into
NoSnapshot == latest_m1_snapshot(MakeTail(<<1, 1>>, <<2, 2>>,
                                          << <<15, 15>>, <<50, 50>> >>, 30), 0)

NoAdvance(stage1) ==
    [called |-> FALSE, before |-> << >>, snapshot |-> NoSnapshot,
     stage1_before |-> EmptyMap, stage1 |-> stage1,
     triggers |-> << >>, reg_before |-> << >>]

\* the stage-1 bar of each setup after a step: set when a setup moves to
\* WAIT_M1_STOCH, kept while it waits there
Stage1After(before, stage1, updated, bar) ==
    [key \in {k \in DictKeys(updated) :
                 DictGet(updated, k).state = "WAIT_M1_STOCH"} |->
        IF key \in DictKeys(before)
            /\ DictGet(before, key).state = "WAIT_M1_STOCH"
            /\ key \in DOMAIN stage1
        THEN stage1[key] ELSE bar]

\* the inner while loop of run_time_based_backtest: the confirmation bar at
\* bt.m1_pos reaches the close of a primary bar, whose triggers are registered
BtM15Close(tail) ==
    /\ bt.m1_pos <= MaxM1Bars
    /\ ~bt.m15_done
    /\ LET triggers == evaluate_m15_triggers(config, tail, bt.m1_pos)
           updated == IF triggers # << >>
                      THEN register_triggers(pending_map, BtSymbol, triggers)
                      ELSE pending_map
       IN  /\ pending_map' = updated
           /\ bt_last' = [NoAdvance(Stage1After(updated, bt_last.stage1,
                                                updated, bt.m1_pos))
                             EXCEPT !.triggers = triggers,
                                    !.reg_before = IF triggers # << >>
                                                   THEN pending_map ELSE << >>]
    /\ bt' = [bt EXCEPT !.m15_done = TRUE]
    /\ bt_emitted' = << >>
    /\ UNCHANGED othersOfBt

\* the rest of the loop body for the confirmation bar at bt.m1_pos: the
\* pending setups are advanced by the snapshot of that bar
BtAdvance(tail) ==
    /\ bt.m1_pos <= MaxM1Bars
    /\ bt' = [m1_pos |-> bt.m1_pos + 1, m15_done |-> FALSE]
    /\ IF pending_map = << >> \/ ~m1_snapshot_defined(tail)
       THEN /\ UNCHANGED pending_map
            /\ bt_emitted' = << >>
            /\ bt_last' = NoAdvance(bt_last.stage1)
       ELSE LET snapshot == latest_m1_snapshot(tail, bt.m1_pos)
                out == _advance_pending(config, pending_map, snapshot)
            IN  /\ pending_map' = out.updated
                /\ bt_emitted' = out.emitted
                /\ bt_last' = [called |-> TRUE, before |-> pending_map,
                               snapshot |-> snapshot,
                               stage1_before |-> bt_last.stage1,
                               stage1 |-> Stage1After(pending_map, bt_last.stage1,
                                                      out.updated, bt.m1_pos),
                               triggers |-> << >>, reg_before |-> << >>]
    /\ UNCHANGED othersOfBt

\* the start of run_time_based_backtest
BacktestInit ==
    /\ bt = [m1_pos |-> 1, m15_done |-> FALSE]
    /\ pending_map = << >>
    /\ bt_emitted = << >>
    /\ bt_last = NoAdvance(EmptyMap)

----------------------------------------------------------------------------
(* evaluate_m15_triggers called on a window *)

NoTail == MakeTail(<<1, 1>>, <<2, 2>>, << <<15, 15>>, <<50, 50>> >>, 30)

\* StrategyEvaluator.evaluate_m15_triggers(m15_df, m15_close_time_utc) on a
\* window with the given tail
call_evaluate_m15_triggers(tail) ==
    /\ trig' = [called |-> TRUE, tail |-> tail,
                result |-> evaluate_m15_triggers(config, tail, 1)]
    /\ UNCHANGED othersOfTrig

TriggerInit == trig = [called |-> FALSE, tail |-> NoTail, result |-> << >>]

----------------------------------------------------------------------------
(* main.py: the chain path of the live loop (_run_forever_with_m1_only with  *)
(* strategy.chain.enabled, legacy scenarios and the M1-only signal off)      *)

\* TradingSignalBotApp._PENDING_SETUP_MAX_AGE, in hours; bar times of this
\* path are in hours
_PENDING_SETUP_MAX_AGE == 8

\* the last hour of the market feed
MaxChainTime == 9

\* the confirmation windows of this path: one that meets stage 1 of a BUY
\* setup, one that meets stage 2 of a BUY setup, one that meets neither, one
\* whose current LWMA is undefined
ChainM1Tails ==
    {MakeTail(<<1, 3>>, <<2, 2>>, << <<85, 85>>, <<50, 50>> >>, 30),
     MakeTail(<<1, 1>>, <<2, 2>>, << <<15, 15>>, <<50, 12>> >>, 30),
     MakeTail(<<1, 1>>, <<2, 2>>, << <<15, 15>>, <<50, 50>> >>, 30),
     MakeTail(<<1, NaN>>, <<2, 2>>, << <<15, 15>>, <<50, 50>> >>, 30)}

\* the primary windows of this path: a BUY trigger without and with an
\* average cross, a SELL trigger, no trigger
ChainM15Tails ==
    {MakeTail(<<3, 3>>, <<2, 2>>, << <<15, 15>>, <<50, 12>> >>, 30),
     MakeTail(<<1, 3>>, <<2, 2>>, << <<15, 15>>, <<50, 12>> >>, 30),
     MakeTail(<<1, 1>>, <<2, 2>>, << <<85, 85>>, <<50, 88>> >>, 30),
     MakeTail(<<3, 3>>, <<2, 2>>, << <<15, 15>>, <<50, 50>> >>, 30)}

\* the keyword arguments of _evaluate_pending_chain_signal's call
main_call_kwargs == {"pending", "snapshot", "price", "m15_df"}

\* no run has just returned; bar is the confirmation bar the last run that
\* built a snapshot saw
NoRun(bar) == [ran |-> FALSE, raised |-> FALSE, bar |-> bar, new_bar |-> FALSE,
               live |-> {}, advanced |-> {}]

\* the for loop of _evaluate_pending_chain_signal over the rest m of the map:
\* an expired setup is skipped, the others are advanced; an exception leaves
\* the loop (and the method)
RECURSIVE _evaluate_pending_loop(_, _, _, _)
_evaluate_pending_loop(cfg, m, snapshot, acc) ==
    IF m = << >> THEN acc
    ELSE LET pending == Head(m) IN
         IF (snapshot.bar_time_utc - pending.m15_trigger_time_utc)
                > _PENDING_SETUP_MAX_AGE
         THEN _evaluate_pending_loop(cfg, Tail(m), snapshot, acc)
         ELSE LET call == call_advance_pending_setup(main_call_kwargs, cfg,
                                                     pending, snapshot)
              IN  IF call.raised
                  THEN [acc EXCEPT !.raised = TRUE,
                                   !.live = @ \cup {SetupKey(pending)}]
                  ELSE _evaluate_pending_loop(cfg, Tail(m), snapshot,
                         [acc EXCEPT
                            !.updated = IF call.result.kept
                                        THEN DictSet(@, call.result.pending)
                                        ELSE @,
                            !.signals = IF call.result.emitted
                                        THEN Append(@, call.result.signal)
                                        ELSE @,
                            !.live = @ \cup {SetupKey(pending)},
                            !.advanced = @ \cup {SetupKey(pending)}])

\* the data source closes a confirmation bar dt hours after the last one
NewM1Bar(tail, dt) ==
    /\ mt5.m1_time + dt <= MaxChainTime
    /\ mt5' = [mt5 EXCEPT !.m1_time = @ + dt, !.m1_tail = tail]
    /\ chain_last' = NoRun(chain_last.bar)
    /\ UNCHANGED <<pending_setups, last_processed_m15_close, chain_emitted,
                   othersOfChain>>

\* the data source closes a primary bar together with the latest confirmation
\* bar; the loop wakes every minute, so the previous primary bar was processed
NewM15Bar ==
    /\ mt5.m15_time < mt5.m1_time
    /\ mt5.m15_time # None => last_processed_m15_close = mt5.m15_time
    /\ mt5' = [mt5 EXCEPT !.m15_time = mt5.m1_time]
    /\ chain_last' = NoRun(chain_last.bar)
    /\ UNCHANGED <<pending_setups, last_processed_m15_close, chain_emitted,
                   othersOfChain>>

\* TradingSignalBotApp._process_symbol with only the chain enabled: the
\* primary bars after the cursor are evaluated for triggers (tail is the
\* window of the latest one), the triggers registered, the cursor moved
_process_symbol(tail) ==
    /\ mt5.m15_time # None
    /\ IF last_processed_m15_close # None
            /\ ~(mt5.m15_time > last_processed_m15_close)
       THEN UNCHANGED <<pending_setups, last_processed_m15_close>>
       ELSE LET triggers == evaluate_m15_triggers(config, tail, mt5.m15_time)
            IN  /\ pending_setups' =
                       IF triggers # << >>
                       THEN register_triggers(pending_setups, BtSymbol, triggers)
                       ELSE pending_setups
                /\ last_processed_m15_close' = mt5.m15_time
    /\ chain_last' = NoRun(chain_last.bar)
    /\ UNCHANGED <<mt5, chain_emitted, othersOfChain>>

\* TradingSignalBotApp._evaluate_pending_chain_signal, as _run_m1_only_cycle
\* calls it: an exception of the loop is caught by the caller, after which
\* neither the map is stored nor a signal emitted
_evaluate_pending_chain_signal ==
    /\ IF pending_setups = << >> \/ ~m1_snapshot_defined(mt5.m1_tail)
       THEN /\ UNCHANGED <<pending_setups, chain_emitted>>
            /\ chain_last' = NoRun(chain_last.bar)
       ELSE LET snapshot == latest_m1_snapshot(mt5.m1_tail, mt5.m1_time)
                out == _evaluate_pending_loop(config, pending_setups, snapshot,
                          [raised |-> FALSE, updated |-> << >>,
                           signals |-> << >>, live |-> {}, advanced |-> {}])
            IN  /\ pending_setups' = IF out.raised THEN pending_setups
                                     ELSE out.updated
                /\ chain_emitted' = IF out.raised THEN << >> ELSE out.signals
                /\ chain_last' = [ran |-> TRUE, raised |-> out.raised,
                                  bar |-> snapshot.bar_time_utc,
                                  new_bar |-> snapshot.bar_time_utc
                                                # chain_last.bar,
                                  live |-> out.live, advanced |-> out.advanced]
    /\ UNCHANGED <<mt5, last_processed_m15_close, othersOfChain>>

\* TradingSignalBotApp.__init__
ChainInit ==
    /\ mt5 = [m1_time |-> 0, m1_tail |-> NoTail, m15_time |-> None]
    /\ pending_setups = << >>
    /\ last_processed_m15_close = None
    /\ chain_emitted = << >>
    /\ chain_last = NoRun(None)

----------------------------------------------------------------------------
(* telegram_notifier.py and the emission path of main.py, for the M15-only   *)
(* loop (chain and M1-only signal off, legacy scenarios on)                  *)

\* the number of closed primary bars _replay_startup_window replays
ReplayBars == 3

\* what evaluate_all yields for a primary bar: nothing, or one BUY signal
BarResults == {"NONE", "BUY"}

\* the signal evaluate_all yields for the bar that closed at time bar
BarSignal(bar) == MakeSignal(BtSymbol, "BUY", "BUY_S1", bar, bar)

\* an item of the queue file; valid tells whether its "signal" entry is still
\* a record Signal.from_dict accepts
QueueItem(signal, retry_count) ==
    [signal |-> signal, retry_count |-> retry_count, valid |-> TRUE]

ItemKeys(items) == {idempotency_key(items[i].signal) : i \in 1..Len(items)}

EmptyQueue == [readable |-> TRUE, items |-> << >>]

\* TelegramNotifier._load_queue: an unreadable file is renamed aside and the
\* queue reset to empty
_load_queue(q) == IF q.readable THEN q ELSE EmptyQueue

\* TelegramNotifier._enqueue_failed: the item is appended with retry_count
\* max_retries and the oldest items beyond max_queue are cut off
_enqueue_failed(q, signal) ==
    LET loaded == _load_queue(q)
        items == Append(loaded.items, QueueItem(signal, MaxRetries))
        cut == IF Len(items) > MaxQueue THEN Len(items) - MaxQueue ELSE 0
    IN  [queue |-> [readable |-> TRUE,
                    items |-> SubSeq(items, cut + 1, Len(items))],
         overflowed |-> ItemKeys(SubSeq(items, 1, cut))]

Tag(keys, reason) == {<<k, reason>> : k \in keys}

\* the transport receives a message with idempotency key k
Receive(d, k) ==
    [d EXCEPT !.delivered = @ \cup {k},
              !.duplicated = IF k \in d.delivered THEN @ \cup {k} ELSE @]

\* TradingSignalBotApp._send_with_record: TelegramNotifier.send_signal (ok
\* tells whether one of the max_retries attempts succeeds), then
\* DedupStore.record when send_signal returned True
_send_with_record(d, signal, ok, dry, current) ==
    LET k == idempotency_key(signal)
        recorded == [d EXCEPT !.dedup = record_state(d.dedup, signal, current),
                              !.file = record_state(d.dedup, signal, current)]
    IN  IF dry THEN recorded
        ELSE IF ok THEN Receive(recorded, k)
        ELSE LET queued == _enqueue_failed(d.queue, signal)
             IN  [d EXCEPT !.queue = queued.queue,
                           !.dropped = @ \cup Tag(queued.overflowed, "overflow")]

\* TradingSignalBotApp._emit_signals on signals that need no summary: each is
\* passed through DedupStore.should_emit and, if accepted, sent; oks[i] is the
\* outcome of the send of the i-th signal
RECURSIVE _emit_signals(_, _, _, _, _, _)
_emit_signals(d, signals, oks, i, dry, current) ==
    IF i > Len(signals) THEN d
    ELSE LET pruned == _prune_in_memory(d.dedup, current)
             gated == [d EXCEPT !.dedup = pruned]
         IN  IF ~should_emit_result(pruned, signals[i], current)
             THEN _emit_signals(gated, signals, oks, i + 1, dry, current)
             ELSE _emit_signals(
                    _send_with_record(
                        [gated EXCEPT
                            !.accepted = @ \cup {idempotency_key(signals[i])}],
                        signals[i], oks[i], dry, current),
                    signals, oks, i + 1, dry, current)

\* the for loop of TelegramNotifier.retry_failed_queue over items[i..]:
\* new_queue and the history are accumulated in d
RECURSIVE _retry_loop(_, _, _, _, _)
_retry_loop(d, items, oks, i, dry) ==
    IF i > Len(items) THEN d
    ELSE LET item == items[i]
             k == idempotency_key(item.signal)
             drop(reason) == [d EXCEPT !.dropped = @ \cup {<<k, reason>>}]
             next(dd) == _retry_loop(dd, items, oks, i + 1, dry)
         IN  IF item.retry_count >= MaxFailedRetryCount
             THEN next(drop("max_retries"))
             ELSE IF ~item.valid THEN next(d)
             ELSE IF dry THEN next(d)
             ELSE IF oks[i] THEN next(Receive(d, k))
             ELSE IF item.retry_count + 1 >= MaxFailedRetryCount
             THEN next(drop("max_retries"))
             ELSE next([d EXCEPT !.queue.items =
                           Append(@, QueueItem(item.signal,
                                               item.retry_count + 1))])

\* TelegramNotifier.retry_failed_queue on the delivery state d
retry_queue(d, oks, dry) ==
    LET loaded == _load_queue(d.queue)
        start == [d EXCEPT !.queue = EmptyQueue]
    IN  _retry_loop(start, loaded.items, oks, 1, dry)

\* the delivery state the operations below thread through the calls
DeliveryState ==
    [dedup |-> dedupState, file |-> dedupFile, queue |-> queue_file,
     delivered |-> delivered, duplicated |-> duplicated,
     accepted |-> accepted, dropped |-> dropped]

Commit(d) ==
    /\ dedupState' = d.dedup
    /\ dedupFile' = d.file
    /\ queue_file' = d.queue
    /\ delivered' = d.delivered
    /\ duplicated' = d.duplicated
    /\ accepted' = d.accepted
    /\ dropped' = d.dropped

\* the signals of the bars feed[from..], oldest first
RECURSIVE FeedSignals(_, _, _)
FeedSignals(f, from, current) ==
    IF from > Len(f) THEN << >>
    ELSE (IF f[from] = "BUY"
          THEN <<BarSignal(current - (Len(f) - from))>> ELSE << >>)
         \o FeedSignals(f, from + 1, current)

\* the data source closes a primary bar: while the process is down, or once
\* per sleep of the loop
NewM15Close(result) ==
    /\ now < MaxM15Bars
    /\ proc.pc = "down"
        \/ (proc.pc = "sleep" /\ last_processed_m15_close = now)
    /\ now' = now + 1
    /\ feed' = LET f == Append(feed, result)
               IN  IF Len(f) > ReplayBars THEN Tail(f) ELSE f
    /\ UNCHANGED <<dedupState, dedupFile, proc, queue_file, delivered,
                   duplicated, accepted, dropped, last_processed_m15_close,
                   othersOfDelivery>>

\* TradingSignalBotApp.__init__ and startup up to the replay: the dedup state
\* is loaded, the startup message sent (hello_ok; a failure ends the process),
\* the latest closed primary bars replayed and the cursor set
startup(dry, hello_ok, oks) ==
    /\ proc.pc = "down"
    /\ LET loaded == [DeliveryState EXCEPT
                         !.dedup = _prune_in_memory(dedupFile, now),
                         !.file = _prune_in_memory(dedupFile, now)]
       IN  IF ~dry /\ ~hello_ok
           THEN /\ Commit(loaded)
                /\ UNCHANGED <<proc, last_processed_m15_close>>
           ELSE /\ Commit(_emit_signals(loaded, FeedSignals(feed, 1, now),
                                        oks, 1, dry, now))
                /\ proc' = [pc |-> "startup_retry", dry_run |-> dry]
                /\ last_processed_m15_close' = now
    /\ UNCHANGED <<now, feed, othersOfDelivery>>

\* TradingSignalBotApp._run_m15_cycle: the bars closed after the cursor are
\* evaluated and their signals emitted
_run_m15_cycle(oks) ==
    /\ proc.pc = "sleep"
    /\ LET pending == now - last_processed_m15_close
       IN  Commit(_emit_signals(DeliveryState,
                                FeedSignals(feed, Len(feed) - pending + 1, now),
                                oks, 1, proc.dry_run, now))
    /\ last_processed_m15_close' = now
    /\ proc' = [proc EXCEPT !.pc = "cycled"]
    /\ UNCHANGED <<now, feed, othersOfDelivery>>

\* TelegramNotifier.retry_failed_queue, as startup and the loop call it
retry_failed_queue(oks) ==
    /\ proc.pc \in {"startup_retry", "cycled"}
    /\ Commit(retry_queue(DeliveryState, oks, proc.dry_run))
    /\ proc' = [proc EXCEPT !.pc = "sleep"]
    /\ UNCHANGED <<now, feed, last_processed_m15_close, othersOfDelivery>>

\* the process ends (crash, kill, reboot): what it held in memory is gone
ProcessExit ==
    /\ proc.pc # "down"
    /\ proc' = [pc |-> "down", dry_run |-> FALSE]
    /\ last_processed_m15_close' = None
    /\ UNCHANGED <<now, dedupState, dedupFile, feed, queue_file, delivered,
                   duplicated, accepted, dropped, othersOfDelivery>>

\* the queue file becomes unreadable (truncated or overwritten from outside)
QueueFileDamaged ==
    /\ queue_file.readable
    /\ queue_file.items # << >>
    /\ queue_file' = [queue_file EXCEPT !.readable = FALSE]
    /\ UNCHANGED <<now, dedupState, dedupFile, proc, feed, delivered,
                   duplicated, accepted, dropped, last_processed_m15_close,
                   othersOfDelivery>>

\* an item of the queue file is damaged from outside: its "signal" entry no
\* longer deserializes
QueueItemDamaged(i) ==
    /\ queue_file.readable
    /\ i \in 1..Len(queue_file.items)
    /\ queue_file.items[i].valid
    /\ queue_file' = [queue_file EXCEPT !.items[i].valid = FALSE]
    /\ UNCHANGED <<now, dedupState, dedupFile, proc, feed, delivered,
                   duplicated, accepted, dropped, last_processed_m15_close,
                   othersOfDelivery>>

\* before the first start: no queue file content, nothing sent
DeliveryInit ==
    /\ proc = [pc |-> "down", dry_run |-> FALSE]
    /\ feed = << >>
    /\ queue_file = EmptyQueue
    /\ delivered = {}
    /\ duplicated = {}
    /\ accepted = {}
    /\ dropped = {}

----------------------------------------------------------------------------
(* telegram_notifier.py on its own: every transport attempt, every wait *)

\* the number of send_signal calls of a run
MaxSends == 3

\* the settings a TelegramNotifier is built with (settings.py requires each
\* of the three numbers to be at least 1)
MaxRetriesValues == {1, 2, 3}
MaxFailedRetryCountValues == {1, 2, 4}
MaxQueueValues == {1, 2}

NotifierConfigs ==
    [max_retries : MaxRetriesValues,
     max_failed_retry_count : MaxFailedRetryCountValues,
     max_queue : MaxQueueValues,
     dry_run : BOOLEAN]

\* what one post to the transport comes back with: an exception of requests,
\* or a response with its status code, the "ok" field of its body and the
\* "retry_after" parameter of its body (None: absent or not a number)
NoHint == None
TransportResponse(status, ok, retry_after) ==
    [status |-> status, ok |-> ok, retry_after |-> retry_after]

Delivered == TransportResponse("200", TRUE, NoHint)
Refused == TransportResponse("200", FALSE, NoHint)
ConnectionError == TransportResponse("exception", FALSE, NoHint)
ServerError == TransportResponse("500", FALSE, NoHint)
RateLimited(hint) == TransportResponse("429", FALSE, hint)

Min(a, b) == IF a <= b THEN a ELSE b
Max(a, b) == IF a >= b THEN a ELSE b

\* a mutant of _parse_retry_after: the hint is not raised to at least 1
ParseRetryAfterNoFloor(response) ==
    IF response.retry_after = NoHint THEN 1
    ELSE response.retry_after

\* telegram_notifier._parse_retry_after (a hint that is absent or not an
\* int or a str holding an int gives 1)
_parse_retry_after(response) ==
    IF response.retry_after = NoHint THEN 1
    ELSE Max(1, response.retry_after)

\* TelegramNotifier._send_message_once: (ok, retry_after, error)
_send_message_once(response) ==
    IF response.status = "exception"
    THEN [ok |-> FALSE, retry_after |-> None, error |-> "exception"]
    ELSE IF response.status = "200"
    THEN IF response.ok
         THEN [ok |-> TRUE, retry_after |-> None, error |-> "none"]
         ELSE [ok |-> FALSE, retry_after |-> None, error |-> "body"]
    ELSE IF response.status = "429"
    THEN [ok |-> FALSE, retry_after |-> _parse_retry_after(response),
          error |-> "rate_limited"]
    ELSE [ok |-> FALSE, retry_after |-> None, error |-> "status"]

\* the for loop of TelegramNotifier._send_message_with_retry from the given
\* attempt on; sleeps collects the arguments of time.sleep
RECURSIVE _send_loop(_, _, _, _, _)
_send_loop(max_retries, responses, attempt, error, sleeps) ==
    IF attempt > max_retries
    THEN [ok |-> FALSE, error |-> error, attempts |-> attempt - 1,
          sleeps |-> sleeps]
    ELSE LET once == _send_message_once(responses[attempt])
             wait == Min(8, 2 ^ (attempt - 1))
         IN  IF once.ok
             THEN [ok |-> TRUE, error |-> "none", attempts |-> attempt,
                   sleeps |-> sleeps]
             ELSE _send_loop(max_retries, responses, attempt + 1, once.error,
                     Append(sleeps, IF once.retry_after # None
                                    THEN once.retry_after ELSE wait))

\* TelegramNotifier._send_message_with_retry; responses[i] is what the i-th
\* post comes back with
_send_message_with_retry(max_retries, responses) ==
    _send_loop(max_retries, responses, 1, "none", << >>)

\* an item of the queue file; fails is history: the retry passes that have
\* failed for the item since it was enqueued
NotifierItem(signal, retry_count, last_error) ==
    [signal |-> signal, retry_count |-> retry_count,
     last_error |-> last_error, fails |-> 0]

LastItems(items, n) ==
    SubSeq(items, IF Len(items) > n THEN Len(items) - n + 1 ELSE 1, Len(items))

\* a mutant of enqueue_failed: the retry counter starts at 0
EnqueueFailedFromZero(cfg, items, signal, last_error) ==
    LastItems(Append(items, NotifierItem(signal, 0, last_error)),
              cfg.max_queue)

\* a mutant of enqueue_failed: the newest items are cut off
EnqueueFailedKeepOldest(cfg, items, signal, last_error) ==
    SubSeq(Append(items, NotifierItem(signal, cfg.max_retries, last_error)),
           1, Min(Len(items) + 1, cfg.max_queue))

\* TelegramNotifier._enqueue_failed under the settings cfg
enqueue_failed(cfg, items, signal, last_error) ==
    LastItems(Append(items, NotifierItem(signal, cfg.max_retries, last_error)),
              cfg.max_queue)

\* a mutant of retry_item: a failed item is re-queued with its counter
\* unchanged
RetryItemNoCount(cfg, item, responses) ==
    LET sent == _send_message_with_retry(cfg.max_retries, responses)
        failed == [item EXCEPT !.last_error = sent.error, !.fails = @ + 1]
    IN  IF item.retry_count >= cfg.max_failed_retry_count
        THEN [fate |-> "dropped", attempts |-> 0, item |-> item]
        ELSE IF cfg.dry_run
        THEN [fate |-> "sent", attempts |-> 0, item |-> item]
        ELSE IF sent.ok
        THEN [fate |-> "sent", attempts |-> sent.attempts, item |-> item]
        ELSE [fate |-> "kept", attempts |-> sent.attempts, item |-> failed]

\* what the loop of retry_failed_queue does with one item: its fate, the
\* number of posts made for it, the item as re-queued
retry_item(cfg, item, responses) ==
    LET sent == _send_message_with_retry(cfg.max_retries, responses)
        failed == [item EXCEPT !.retry_count = @ + 1,
                               !.last_error = sent.error,
                               !.fails = @ + 1]
    IN  IF item.retry_count >= cfg.max_failed_retry_count
        THEN [fate |-> "dropped", attempts |-> 0, item |-> item]
        ELSE IF cfg.dry_run
        THEN [fate |-> "sent", attempts |-> 0, item |-> item]
        ELSE IF sent.ok
        THEN [fate |-> "sent", attempts |-> sent.attempts, item |-> item]
        ELSE IF item.retry_count + 1 >= cfg.max_failed_retry_count
        THEN [fate |-> "dropped", attempts |-> sent.attempts, item |-> failed]
        ELSE [fate |-> "kept", attempts |-> sent.attempts, item |-> failed]

\* the fates of the items of a retry_failed_queue pass, in queue order
retry_pass(cfg, items, responses) ==
    [i \in 1..Len(items) |-> retry_item(cfg, items[i], responses[i])]

Requeued(fates) ==
    LET kept == SelectSeq(fates, LAMBDA f : f.fate = "kept")
    IN  [i \in 1..Len(kept) |-> kept[i].item]

NoNotifierCall ==
    [op |-> "none", signal |-> 0, returned |-> FALSE, attempts |-> 0,
     error |-> "none", responses |-> << >>, before |-> << >>,
     fates |-> << >>]

\* what the transport can answer to the posts of one call: failures, then
\* possibly a success
FailureResponses == {ConnectionError, ServerError}

ResponseRuns(n) ==
    {r \in [1..n -> FailureResponses \cup {Delivered}] :
        \A i \in 1..n : r[i] = Delivered => \A j \in i..n : r[j] = Delivered}

\* the answers to the posts made for one queued item: a number of connection
\* errors, then successes
RetryRuns(n) ==
    {r \in [1..n -> {ConnectionError, Delivered}] :
        \A i \in 1..n : r[i] = Delivered => \A j \in i..n : r[j] = Delivered}

\* TelegramNotifier.send_signal for a new signal
send_signal(responses) ==
    /\ notifier.next_id <= MaxSends
    /\ LET cfg == notifier.cfg
           signal == notifier.next_id
           sent == _send_message_with_retry(cfg.max_retries, responses)
           ok == cfg.dry_run \/ sent.ok
       IN  /\ notifier' =
                [notifier EXCEPT
                    !.next_id = @ + 1,
                    !.items = IF ok THEN @
                              ELSE enqueue_failed(cfg, @, signal, sent.error)]
           /\ ncall' = [op |-> "send_signal", signal |-> signal,
                        returned |-> ok,
                        attempts |-> IF cfg.dry_run THEN 0 ELSE sent.attempts,
                        error |-> IF cfg.dry_run THEN "none" ELSE sent.error,
                        responses |-> responses,
                        before |-> notifier.items, fates |-> << >>]
    /\ UNCHANGED othersOfNotifier

\* TelegramNotifier.retry_failed_queue on its own; responses[i] are the
\* answers to the posts made for the i-th item
notifier_retry_failed_queue(responses) ==
    /\ notifier.items # << >>
    /\ LET fates == retry_pass(notifier.cfg, notifier.items, responses)
       IN  /\ notifier' = [notifier EXCEPT !.items = Requeued(fates)]
           /\ ncall' = [NoNotifierCall EXCEPT
                            !.op = "retry_failed_queue",
                            !.before = notifier.items,
                            !.fates = fates]
    /\ UNCHANGED othersOfNotifier

\* TelegramNotifier.__init__ with settings cfg: an empty queue file
NotifierStart(cfg) ==
    /\ notifier = [cfg |-> cfg, items |-> << >>, next_id |-> 1]
    /\ ncall = NoNotifierCall

DefaultNotifierConfig ==
    [max_retries |-> 3, max_failed_retry_count |-> 4, max_queue |-> 2,
     dry_run |-> FALSE]

NotifierInit == NotifierStart(DefaultNotifierConfig)

\* the largest max_retries of a _send_message_with_retry call on its own
MaxAttempts == 5

\* the retry_after values of a rate-limit response
HintValues == {NoHint, 0, 3}

BackoffResponses ==
    {Delivered, ConnectionError} \cup {RateLimited(h) : h \in HintValues}

NoResult == [ok |-> FALSE, error |-> "none", attempts |-> 0, sleeps |-> << >>]

\* the arguments of a _send_message_with_retry call about to be made
BackoffInputs ==
    UNION {[max_retries : {n}, responses : [1..n -> BackoffResponses],
            called : {FALSE}, result : {NoResult}] : n \in 1..MaxAttempts}

\* the call of TelegramNotifier._send_message_with_retry
call_send_message_with_retry ==
    /\ ~backoff.called
    /\ backoff' = [backoff EXCEPT
                      !.called = TRUE,
                      !.result = _send_message_with_retry(backoff.max_retries,
                                                          backoff.responses)]
    /\ UNCHANGED othersOfBackoff

BackoffInit ==
    backoff = [max_retries |-> 1, responses |-> <<Delivered>>,
               called |-> FALSE, result |-> NoResult]

----------------------------------------------------------------------------
(* main.py: run_forever and the passes over the symbols *)

\* the number of wake-ups of a run
MaxCycles == 2

\* config.symbols, in configured order
WorkerSymbols == <<"XAUUSD", "EURUSD", "GBPUSD">>

\* run_forever picks the loop from m1_only.enabled / strategy.chain.enabled
Loops == {"m15_only", "with_m1_only"}

NoPass == [name |-> "none", called |-> << >>, raised |-> {}]

\* a mutant of after_symbol: an exception ends the pass
AfterSymbolAbort(w, outcome) ==
    [w EXCEPT !.i = IF outcome = "error" THEN Len(WorkerSymbols) + 1
                    ELSE @ + 1,
              !.called = Append(@, WorkerSymbols[w.i]),
              !.raised = IF outcome = "error"
                         THEN @ \cup {WorkerSymbols[w.i]} ELSE @]

\* one turn of the for loop of _run_m15_cycle / _run_m1_only_cycle: the
\* symbol is processed inside try / except Exception, so an exception is
\* logged and the loop goes on
after_symbol(w, outcome) ==
    [w EXCEPT !.i = @ + 1,
              !.called = Append(@, WorkerSymbols[w.i]),
              !.raised = IF outcome = "error"
                         THEN @ \cup {WorkerSymbols[w.i]} ELSE @]

\* where the loop goes when the pass named pc is over
AfterPass(loop, pc) ==
    IF pc = "m15" /\ loop = "with_m1_only" THEN "m1" ELSE "tail"

\* time.sleep until the next close returns; run_m15 is the result of
\* _should_run_m15_cycle
WakeUp(run_m15) ==
    /\ worker.pc = "sleep"
    /\ worker.cycle < MaxCycles
    /\ worker.loop = "m15_only" => run_m15
    /\ worker' = [worker EXCEPT !.pc = IF run_m15 THEN "m15" ELSE "m1",
                                !.cycle = @ + 1,
                                !.i = 1, !.called = << >>, !.raised = {}]
    /\ UNCHANGED othersOfWorker

\* the body of the for loop for the next symbol; outcome tells whether
\* _process_symbol (or the M1 evaluation) returns or raises an Exception
process_symbol(outcome) ==
    /\ worker.pc \in {"m15", "m1"}
    /\ worker.i <= Len(WorkerSymbols)
    /\ LET w == after_symbol(worker, outcome)
       IN  worker' =
             IF w.i <= Len(WorkerSymbols) THEN w
             ELSE [w EXCEPT !.pc = AfterPass(worker.loop, worker.pc),
                            !.last_pass = [name |-> worker.pc,
                                           called |-> w.called,
                                           raised |-> w.raised],
                            !.i = 1, !.called = << >>, !.raised = {}]
    /\ UNCHANGED othersOfWorker

\* retry_failed_queue and _emit_heartbeat at the end of the try block: they
\* return, or one raises an Exception, which the loop logs before it sleeps
\* loop_failure_sleep_seconds
run_tail(outcome) ==
    /\ worker.pc = "tail"
    /\ worker' = [worker EXCEPT
                    !.pc = IF outcome = "error" THEN "failure_sleep"
                           ELSE "sleep"]
    /\ UNCHANGED othersOfWorker

\* time.sleep(loop_failure_sleep_seconds) returns
failure_sleep_over ==
    /\ worker.pc = "failure_sleep"
    /\ worker' = [worker EXCEPT !.pc = "sleep"]
    /\ UNCHANGED othersOfWorker

\* SIGINT: no handler is installed, so Python raises KeyboardInterrupt in the
\* main thread wherever it is. except Exception does not catch it; the
\* loop's except KeyboardInterrupt does and breaks. Inside a pass, after_send
\* tells whether it lands in _send_with_record after send_signal returned
\* True and before DedupStore.record.
KeyboardInterrupt(after_send) ==
    /\ worker.pc \in {"sleep", "m15", "m1", "tail", "failure_sleep"}
    /\ after_send => worker.pc \in {"m15", "m1"}
    /\ worker' = [worker EXCEPT
                    !.pc = "returned",
                    !.stopped_in = worker.pc,
                    !.unrecorded = IF after_send
                                   THEN {WorkerSymbols[worker.i]} ELSE {}]
    /\ UNCHANGED othersOfWorker

\* run_forever is entered
WorkerStart(loop) ==
    worker = [loop |-> loop, pc |-> "sleep", cycle |-> 0, i |-> 1,
              called |-> << >>, raised |-> {}, last_pass |-> NoPass,
              stopped_in |-> "none", unrecorded |-> {}]

WorkerInit == WorkerStart("m15_only")

----------------------------------------------------------------------------
(* utils.atomic_write_json and the files of the two stores *)

\* the number of items of a queue payload
MaxItems == 2

\* entries of a key map of the dedup state: one still valid, one that
\* _prune_in_memory removes (expired or malformed)
EntrySet == {"fresh", "stale"}

\* payloads of the dedup state file and of the queue file
DedupPayloads == [idempotency_keys : SUBSET EntrySet,
                  cooldown_keys : SUBSET EntrySet]
QueuePayloads == [items : 0..MaxItems]

default == [idempotency_keys |-> {}, cooldown_keys |-> {}]
NoPayload == [none |-> TRUE]

\* what a file holds: nothing (absent), the complete JSON text of a payload,
\* a prefix of that text, text that is not JSON, JSON whose root is not of
\* the expected type, a JSON object without the two key maps
Absent == [kind |-> "absent", payload |-> NoPayload]
Complete(payload) == [kind |-> "complete", payload |-> payload]
Partial(payload) == [kind |-> "partial", payload |-> payload]
Garbage == [kind |-> "garbage", payload |-> NoPayload]
WrongRoot == [kind |-> "wrong_root", payload |-> NoPayload]
MissingMaps == [kind |-> "missing_maps", payload |-> NoPayload]

\* where the process can be killed inside a store operation: nowhere, while
\* json.dump writes the temporary file, between closing the temporary file
\* and os.replace, between renaming a bad file aside and writing the new one
CrashPoints == {"none", "in_dump", "before_replace", "after_rename"}

\* a mutant of atomic_write_json: the payload is written into the file itself
WriteInPlace(files, payload, crash) ==
    IF crash = "in_dump"
    THEN [files EXCEPT !.file = Partial(payload)]
    ELSE [files EXCEPT !.file = Complete(payload)]

\* utils.atomic_write_json: the files after the call, or after the kill
atomic_write_json(files, payload, crash) ==
    IF crash = "in_dump"
    THEN [files EXCEPT !.tmp = Partial(payload)]
    ELSE IF crash = "before_replace"
    THEN [files EXCEPT !.tmp = Complete(payload)]
    ELSE [files EXCEPT !.file = Complete(payload), !.tmp = Absent]

\* DedupStore._prune_in_memory on a payload
prune(payload) ==
    [idempotency_keys |-> payload.idempotency_keys \cap {"fresh"},
     cooldown_keys |-> payload.cooldown_keys \cap {"fresh"}]

\* path.replace(backup): the file is renamed to the .corrupt backup
rename_aside(files) ==
    [files EXCEPT !.corrupt = files.file, !.file = Absent]

\* a mutant of dedup_load_state: a bad file is overwritten, not renamed
LoadStateNoBackup(files, crash) ==
    IF files.file.kind = "absent"
    THEN [files |-> atomic_write_json(files, default, crash),
          state |-> default]
    ELSE IF files.file.kind = "complete"
    THEN [files |-> atomic_write_json(files, prune(files.file.payload), crash),
          state |-> prune(files.file.payload)]
    ELSE [files |-> atomic_write_json(files, default, crash),
          state |-> default]

\* DedupStore.load_state: the files afterwards and the state returned
dedup_load_state(files, crash) ==
    IF files.file.kind = "absent"
    THEN [files |-> atomic_write_json(files, default, crash),
          state |-> default]
    ELSE IF files.file.kind = "complete"
    THEN [files |-> atomic_write_json(files, prune(files.file.payload), crash),
          state |-> prune(files.file.payload)]
    ELSE IF crash = "after_rename"
    THEN [files |-> rename_aside(files), state |-> default]
    ELSE [files |-> atomic_write_json(rename_aside(files), default, crash),
          state |-> default]

\* TelegramNotifier._load_queue: the files afterwards and the items returned
queue_load(files, crash) ==
    IF files.file.kind = "absent"
    THEN [files |-> files, items |-> 0]
    ELSE IF files.file.kind = "complete"
    THEN [files |-> files, items |-> files.file.payload.items]
    ELSE IF crash = "after_rename"
    THEN [files |-> rename_aside(files), items |-> 0]
    ELSE [files |-> atomic_write_json(rename_aside(files), [items |-> 0],
                                      crash),
          items |-> 0]

\* whether the kill point crash lies on the path the operation takes from
\* the file content found
CrashApplies(content, crash) ==
    crash = "after_rename" => content.kind \notin {"absent", "complete"}

NoIo == [op |-> "none", store |-> "none", found |-> Absent, wrote |-> NoPayload,
         crash |-> "none"]

Io(op, store, found, wrote, crash) ==
    [op |-> op, store |-> store, found |-> found, wrote |-> wrote,
     crash |-> crash]

\* no store is constructed: the process is not running
Down == [dedup |-> "down", queue |-> "down", state |-> default]

\* DedupStore.__init__: self._state = self.load_state()
DedupStore_init(crash) ==
    /\ stores.dedup = "down"
    /\ CrashApplies(disk.dedup.file, crash)
    /\ LET loaded == dedup_load_state(disk.dedup, crash)
       IN  /\ disk' = [disk EXCEPT !.dedup = loaded.files]
           /\ stores' = IF crash = "none"
                        THEN [stores EXCEPT !.dedup = "up",
                                            !.state = loaded.state]
                        ELSE Down
           /\ last_io' = Io("load_state", "dedup", disk.dedup.file,
                            loaded.state, crash)
    /\ UNCHANGED othersOfStore

\* DedupStore.record: a new entry in both maps, prune, persist
store_record(crash) ==
    /\ stores.dedup = "up"
    /\ crash # "after_rename"
    /\ LET state == prune([idempotency_keys |->
                               stores.state.idempotency_keys \cup {"fresh"},
                           cooldown_keys |->
                               stores.state.cooldown_keys \cup {"fresh"}])
       IN  /\ disk' = [disk EXCEPT
                         !.dedup = atomic_write_json(@, state, crash)]
           /\ stores' = IF crash = "none"
                        THEN [stores EXCEPT !.state = state]
                        ELSE Down
           /\ last_io' = Io("record", "dedup", disk.dedup.file, state, crash)
    /\ UNCHANGED othersOfStore

\* TelegramNotifier.__init__: an absent queue file is created empty
TelegramNotifier_init(crash) ==
    /\ stores.queue = "down"
    /\ crash # "after_rename"
    /\ disk.queue.file.kind # "absent" => crash = "none"
    /\ disk' = IF disk.queue.file.kind = "absent"
               THEN [disk EXCEPT !.queue =
                        atomic_write_json(@, [items |-> 0], crash)]
               ELSE disk
    /\ stores' = IF crash = "none" THEN [stores EXCEPT !.queue = "up"]
                 ELSE Down
    /\ last_io' = Io("init", "queue", disk.queue.file, [items |-> 0], crash)
    /\ UNCHANGED othersOfStore

\* a queue write: _enqueue_failed (grow is TRUE: one more item, cut to the
\* cap) or retry_failed_queue (the items that remain, here one less); both
\* load the queue and persist the new list
store_queue_write(grow, crash) ==
    /\ stores.queue = "up"
    /\ CrashApplies(disk.queue.file, crash)
    /\ LET loaded == queue_load(disk.queue, "none")
           killed_in_load == crash = "after_rename"
           items == IF grow THEN Min(loaded.items + 1, MaxItems)
                    ELSE Max(loaded.items - 1, 0)
       IN  /\ ~grow => loaded.items > 0
           /\ disk' = [disk EXCEPT !.queue =
                        IF killed_in_load
                        THEN queue_load(disk.queue, crash).files
                        ELSE atomic_write_json(loaded.files,
                                               [items |-> items], crash)]
           /\ last_io' = Io("persist_queue", "queue",
                            IF killed_in_load THEN disk.queue.file
                            ELSE loaded.files.file,
                            [items |-> items], crash)
    /\ stores' = IF crash = "none" THEN stores ELSE Down
    /\ UNCHANGED othersOfStore

\* the process ends between two operations
store_exit ==
    /\ stores.dedup = "up" \/ stores.queue = "up"
    /\ stores' = Down
    /\ last_io' = NoIo
    /\ UNCHANGED disk
    /\ UNCHANGED othersOfStore

\* what the files can hold when the process is first started
DedupContents ==
    {Absent, Garbage, WrongRoot, MissingMaps}
        \cup {Complete(p) : p \in DedupPayloads}
QueueContents == {Absent, Garbage, WrongRoot, Complete([items |-> 1])}

NoFiles == [file |-> Absent, tmp |-> Absent, corrupt |-> Absent]

StoreStart(dedup_file, queue_file_content) ==
    /\ disk = [dedup |-> [NoFiles EXCEPT !.file = dedup_file],
               queue |-> [NoFiles EXCEPT !.file = queue_file_content]]
    /\ stores = Down
    /\ last_io = NoIo

StoreInit == StoreStart(Absent, Absent)

----------------------------------------------------------------------------
(* repositories/dedup_store.py under concurrent callers *)

\* the number of calls each thread makes
MaxCalls == 2

Threads == {"t1", "t2"}

\* the key thread t records
KeyOf(t) == t

NoThread == "none"

Idle == [op |-> "idle", pc |-> "idle", local |-> {}, calls |-> 0]

StoreOps == {"should_emit", "record", "load_state"}

\* the first statement of each operation: should_emit and record enter
\* `with self._lock`, load_state reads the file
FirstPc(op) == IF op = "load_state" THEN "read" ELSE "acquire"

\* a thread calls an operation of the store
conc_call(t, op) ==
    /\ conc.threads[t].op = "idle"
    /\ conc.threads[t].calls < MaxCalls
    /\ conc' = [conc EXCEPT !.threads[t] =
                    [op |-> op, pc |-> FirstPc(op), local |-> {},
                     calls |-> @.calls + 1]]
    /\ UNCHANGED othersOfConc

\* `with self._lock:` is entered once the lock is free
conc_acquire(t) ==
    /\ conc.threads[t].pc = "acquire"
    /\ conc.lock = NoThread
    /\ conc' = [conc EXCEPT
                  !.lock = t,
                  !.threads[t].pc =
                      IF conc.threads[t].op = "should_emit" THEN "check"
                      ELSE "write"]
    /\ UNCHANGED othersOfConc

\* should_emit inside the lock: prune, look the key up, leave the lock
conc_check(t) ==
    /\ conc.threads[t].pc = "check"
    /\ conc' = [conc EXCEPT !.lock = NoThread, !.threads[t] =
                    [Idle EXCEPT !.calls = conc.threads[t].calls]]
    /\ UNCHANGED othersOfConc

\* record inside the lock: the key is put into self._state
conc_write(t) ==
    /\ conc.threads[t].pc = "write"
    /\ conc' = [conc EXCEPT !.mem = @ \cup {KeyOf(t)},
                            !.threads[t].pc = "persist"]
    /\ UNCHANGED othersOfConc

\* load_state: read_json of the state file into a local state
conc_read(t) ==
    /\ conc.threads[t].pc = "read"
    /\ conc' = [conc EXCEPT !.threads[t].local = conc.file,
                            !.threads[t].pc = "persist"]
    /\ UNCHANGED othersOfConc

\* _persist at the end of record (self._state, then the lock is left) and of
\* load_state (the local state it read)
conc_persist(t) ==
    /\ conc.threads[t].pc = "persist"
    /\ LET th == conc.threads[t]
           done == [Idle EXCEPT !.calls = th.calls]
       IN  conc' =
             IF th.op = "record"
             THEN [conc EXCEPT !.file = conc.mem,
                               !.lock = NoThread,
                               !.recorded = @ \cup {KeyOf(t)},
                               !.threads[t] = done]
             ELSE [conc EXCEPT !.file = th.local,
                               !.threads[t] = done]
    /\ UNCHANGED othersOfConc

\* the store after its constructor: nothing recorded, nobody in a call
ConcInit ==
    conc = [lock |-> NoThread, mem |-> {}, file |-> {}, recorded |-> {},
            threads |-> [t \in Threads |-> Idle]]

----------------------------------------------------------------------------
(* DedupStore.record and TelegramNotifier._enqueue_failed, repeated *)

\* how often a mutation is applied with the same signal
MaxRepeats == 2

\* the dedup states and queues the repeated mutation starts from: empty, or
\* holding one signal already
RepeatStates ==
    {DefaultState} \cup {record_state(DefaultState, s, 1) : s \in DedupSignals}

RepeatQueues ==
    {<< >>} \cup {<<NotifierItem(s, 1, "exception")>> : s \in DedupSignals}

RepeatInputs ==
    [signal : DedupSignals, state : RepeatStates, items : RepeatQueues,
     cfg : {c \in NotifierConfigs : ~c.dry_run /\ c.max_retries = 1
                                    /\ c.max_failed_retry_count = 4},
     records : {0}, enqueues : {0},
     once_state : {DefaultState}, once_items : {<< >>}]

\* DedupStore.record(signal), once more
repeat_record ==
    /\ rep.records < MaxRepeats
    /\ LET state == record_state(rep.state, rep.signal, 1)
       IN  rep' = [rep EXCEPT !.state = state,
                              !.records = @ + 1,
                              !.once_state = IF rep.records = 0 THEN state
                                             ELSE @]
    /\ UNCHANGED othersOfRepeat

\* TelegramNotifier._enqueue_failed(signal, error), once more
repeat_enqueue ==
    /\ rep.enqueues < MaxRepeats
    /\ LET items == enqueue_failed(rep.cfg, rep.items, rep.signal, "exception")
       IN  rep' = [rep EXCEPT !.items = items,
                              !.enqueues = @ + 1,
                              !.once_items = IF rep.enqueues = 0 THEN items
                                             ELSE @]
    /\ UNCHANGED othersOfRepeat

RepeatInit ==
    rep = [signal |-> MakeSignal("XAUUSD", "BUY", "BUY_S1", 1, 1),
           state |-> DefaultState, items |-> << >>,
           cfg |-> DefaultNotifierConfig, records |-> 0, enqueues |-> 0,
           once_state |-> DefaultState, once_items |-> << >>]

----------------------------------------------------------------------------
(* strategy.py: the direct-confirmation path (evaluate_all) and the          *)
(* confirmation-only path (evaluate_m1_only) on a window of M1 bars          *)
(*                                                                           *)
(* A window is a sequence of bars in time order; position p of the sequence  *)
(* is position p - 1 of the data frame.  A bar holds its open time in        *)
(* minutes and the four indicator values at its position.                    *)

\* number of bars of an M1 window
WindowLen == 4
\* the length of an M15 bar in minutes
M15Minutes == 15
\* the m15_close_time_utc argument
EvalClose == 30

M1Bar(time, k, d, fast, slow) ==
    [time |-> time, k |-> k, d |-> d, fast |-> fast, slow |-> slow]

\* <<%K, %D>> and <<fast, slow>> of one bar: %K below %D in the buy zone,
\* above it in the buy zone, below it in the sell zone; the fast average
\* below or above the slow one
BarKD == {<<12, 15>>, <<15, 12>>, <<85, 88>>}
BarLS == {<<1, 2>>, <<3, 2>>}

\* how many leading positions of the averages and of %D are undefined (the
\* rolling windows of calculate_lwma are not full there); %D is the average
\* of %K, so it can be undefined where %K is defined
Warmups == {<<0, 0>>, <<2, 0>>, <<0, WindowLen>>}

\* the open time of the first bar: bars that close before and at the
\* previous M15 close, bars inside the M15 bar, and bars that reach past the
\* M15 close (the callers pass every bar that opened by the M15 close)
WindowStarts == {EvalClose - M15Minutes - 2, EvalClose - 10, EvalClose - 3}

MakeWindow(start, warm, kd, ls) ==
    [p \in 1..WindowLen |->
        M1Bar(start + p - 1,
              kd[p][1],
              IF p <= warm[2] THEN NaN ELSE kd[p][2],
              IF p <= warm[1] THEN NaN ELSE ls[p][1],
              IF p <= warm[1] THEN NaN ELSE ls[p][2])]

M1Windows ==
    {MakeWindow(start, warm, kd, ls) :
        start \in WindowStarts, warm \in Warmups,
        kd \in [1..WindowLen -> BarKD], ls \in [1..WindowLen -> BarLS]}

\* the tails of the M15 window: buy and sell preconditions met or not, with
\* the ADX on either side of the minimum
EvalM15Tails ==
    {t \in M15Tails :
        /\ t.fast \in {<<1, 3>>, <<3, 1>>}
        /\ <<t.k, t.d>> \in {<< <<15, 15>>, <<50, 12>> >>,
                             << <<85, 85>>, <<50, 88>> >>}
        /\ (t.fast = <<3, 1>> => t.k = <<85, 85>>)
        /\ (t.adx < MinAdx => t.fast = <<1, 3>> /\ t.k = <<15, 15>>)}

\* the bar closes one minute after it opens
close_time(bar) == bar.time + 1

\* strategy._cross_at on the columns a and b of a window
cross_at_idx(m1, a, b, idx) ==
    series_cross_at([p \in 1..Len(m1) |-> m1[p][a]],
                    [p \in 1..Len(m1) |-> m1[p][b]], idx)

\* a variant that also takes the bar closing at the previous M15 close
SelectM1CandidatesClosed(m1, m15_prev_close, m15_current_close) ==
    LET RECURSIVE scan(_)
        scan(p) ==
            IF p > Len(m1) THEN << >>
            ELSE (IF close_time(m1[p]) >= m15_prev_close
                        /\ close_time(m1[p]) <= m15_current_close
                  THEN <<p - 1>> ELSE << >>) \o scan(p + 1)
    IN  scan(1)

\* StrategyEvaluator._select_m1_candidates: positions (from 0) in order
_select_m1_candidates(m1, m15_prev_close, m15_current_close) ==
    LET RECURSIVE scan(_)
        scan(p) ==
            IF p > Len(m1) THEN << >>
            ELSE (IF close_time(m1[p]) > m15_prev_close
                        /\ close_time(m1[p]) <= m15_current_close
                  THEN <<p - 1>> ELSE << >>) \o scan(p + 1)
    IN  scan(1)

bar_undefined(bar) ==
    IsNaN(bar.k) \/ IsNaN(bar.d) \/ IsNaN(bar.fast) \/ IsNaN(bar.slow)

\* the loop of evaluate_all over the candidate positions for one direction
\* (side 1: cross above and buy zone, side 2: cross below and sell zone):
\* <<first_s1_pos, first_s2_pos>>
RECURSIVE _first_positions(_, _, _, _, _, _)
_first_positions(m1, candidates, i, side, first_s1_pos, first_s2_pos) ==
    IF i > Len(candidates) THEN <<first_s1_pos, first_s2_pos>>
    ELSE
    LET pos == candidates[i]
        bar == m1[pos + 1]
        zone == IF side = 1 THEN BuyZone ELSE SellZone
        m1_cross == cross_at_idx(m1, "k", "d", pos)[side]
        m1_lwma_cross == cross_at_idx(m1, "fast", "slow", pos)[side]
        s1 == IF first_s1_pos = None /\ m1_cross /\ stoch_in_zone(bar.k, zone)
              THEN pos ELSE first_s1_pos
        s2 == IF first_s2_pos = None /\ m1_lwma_cross
              THEN pos ELSE first_s2_pos
    IN  IF bar_undefined(bar)
        THEN _first_positions(m1, candidates, i + 1, side,
                              first_s1_pos, first_s2_pos)
        ELSE IF s1 # None /\ s2 # None THEN <<s1, s2>>
        ELSE _first_positions(m1, candidates, i + 1, side, s1, s2)

\* a variant that reports the second scenario only without the first
SideSignalsExclusive(m1, symbol, direction, first, m15_close_time_utc) ==
    IF first[1] # None
    THEN <<MakeSignal(symbol, direction, direction \o "_S1",
                      m15_close_time_utc, close_time(m1[first[1] + 1]))>>
    ELSE IF first[2] # None
    THEN <<MakeSignal(symbol, direction, direction \o "_S2",
                      m15_close_time_utc, close_time(m1[first[2] + 1]))>>
    ELSE << >>

\* the signals of one direction, S1 before S2
side_signals(m1, symbol, direction, first, m15_close_time_utc) ==
    (IF first[1] # None
     THEN <<MakeSignal(symbol, direction, direction \o "_S1",
                       m15_close_time_utc, close_time(m1[first[1] + 1]))>>
     ELSE << >>)
    \o (IF first[2] # None
        THEN <<MakeSignal(symbol, direction, direction \o "_S2",
                          m15_close_time_utc, close_time(m1[first[2] + 1]))>>
        ELSE << >>)

\* StrategyEvaluator.evaluate_all
evaluate_all(cfg, tail, m1, symbol, m15_close_time_utc) ==
    IF ~m15_context_defined(tail) THEN << >>
    ELSE
    LET context == _build_m15_context(tail)
        buy_pre == /\ context.order = "bullish"
                   /\ stoch_in_zone(tail.k[2], BuyZone)
                   /\ context.stoch_cross_above
        sell_pre == /\ context.order = "bearish"
                    /\ stoch_in_zone(tail.k[2], SellZone)
                    /\ context.stoch_cross_below
        candidate_positions ==
            _select_m1_candidates(m1, m15_close_time_utc - M15Minutes,
                                  m15_close_time_utc)
        First(side) == _first_positions(m1, candidate_positions, 1, side,
                                        None, None)
    IN  IF ~buy_pre /\ ~sell_pre THEN << >>
        ELSE IF ~_passes_regime_filter(cfg, tail) THEN << >>
        ELSE IF candidate_positions = << >> THEN << >>
        ELSE (IF buy_pre
              THEN side_signals(m1, symbol, "BUY", First(1), m15_close_time_utc)
              ELSE << >>)
             \o (IF sell_pre
                 THEN side_signals(m1, symbol, "SELL", First(2),
                                   m15_close_time_utc)
                 ELSE << >>)

\* a variant that emits for a cross in either zone
EvaluateM1OnlyAnyZone(m1, symbol) ==
    LET idx == Len(m1) - 1
        bar == m1[idx + 1]
        crossed == cross_at_idx(m1, "fast", "slow", idx)
    IN  IF bar_undefined(bar) THEN << >>
        ELSE IF crossed[1]
        THEN <<MakeSignal(symbol, "BUY", "BUY_M1", None, close_time(bar))>>
        ELSE IF crossed[2]
        THEN <<MakeSignal(symbol, "SELL", "SELL_M1", None, close_time(bar))>>
        ELSE << >>

\* StrategyEvaluator.evaluate_m1_only: the signal as a list, empty for None
evaluate_m1_only(m1, symbol) ==
    LET idx == Len(m1) - 1
        bar == m1[idx + 1]
        crossed == cross_at_idx(m1, "fast", "slow", idx)
    IN  IF bar_undefined(bar) THEN << >>
        ELSE IF crossed[1] /\ stoch_in_zone(bar.k, BuyZone)
        THEN <<MakeSignal(symbol, "BUY", "BUY_M1", None, close_time(bar))>>
        ELSE IF crossed[2] /\ stoch_in_zone(bar.k, SellZone)
        THEN <<MakeSignal(symbol, "SELL", "SELL_M1", None, close_time(bar))>>
        ELSE << >>

EvalInputs ==
    [tail : EvalM15Tails, m1 : M1Windows, called : {"none"}, result : {<< >>}]

\* strategy.regime_filter.enabled is on
EvalConfig == [require_opposite_zone_on_lwma_cross |-> TRUE,
               regime_filter_enabled |-> TRUE]

call_evaluate_all ==
    /\ ev.called = "none"
    /\ ev' = [ev EXCEPT !.called = "evaluate_all",
                        !.result = evaluate_all(config, ev.tail, ev.m1,
                                                BtSymbol, EvalClose)]
    /\ UNCHANGED othersOfEval

call_evaluate_m1_only ==
    /\ ev.called = "none"
    /\ ev' = [ev EXCEPT !.called = "evaluate_m1_only",
                        !.result = evaluate_m1_only(ev.m1, BtSymbol)]
    /\ UNCHANGED othersOfEval

EvalInit ==
    ev = [tail |-> NoTail, m1 |-> << >>, called |-> "none", result |-> << >>]

----------------------------------------------------------------------------
(* main.py: the body of _process_symbol for one closed M15 bar, with         *)
(* strategy.enable_legacy_scenarios and strategy.chain.enabled on and the    *)
(* session filter off                                                        *)

\* the ADX at the last bar of the M15 window: undefined, below, at and above
\* regime_filter.min_adx
CycleAdxValues == {NaN, MinAdx - 5, MinAdx, MinAdx + 5}

\* tails of the M15 window that meet the buy or the sell precondition, or
\* neither
CycleTails ==
    {MakeTail(f, <<2, 2>>, kd, a) :
        f \in {<<1, 3>>, <<3, 1>>},
        kd \in {<< <<15, 15>>, <<50, 12>> >>, << <<85, 85>>, <<50, 88>> >>},
        a \in CycleAdxValues}

\* M1 windows inside the M15 bar with every value defined
CycleWindows ==
    {w \in M1Windows :
        /\ w[1] = M1Bar(EvalClose - 10, 12, 15, 1, 2)
        /\ \A p \in 1..Len(w) : ~bar_undefined(w[p])}

\* the pending setups of the symbol before the pass: none, or one from an
\* earlier bar
CycleSetups ==
    {<< >>,
     <<PendingSetup(BtSymbol,
                    M15Trigger("SELL", "NORMAL", EvalClose - M15Minutes,
                               MakeTail(<<3, 1>>, <<2, 2>>,
                                        << <<85, 85>>, <<50, 88>> >>,
                                        MinAdx + 5)))>>}

CycleInputs ==
    [tail : CycleTails, m1 : CycleWindows, before : CycleSetups,
     after : {<< >>}, ran : {FALSE}, triggers : {<< >>}, signals : {<< >>}]

\* TradingSignalBotApp._process_symbol, one turn of its loop over the
\* pending positions: the signals of evaluate_all are emitted, the triggers
\* of evaluate_m15_triggers are registered
process_m15_bar ==
    /\ ~cyc.ran
    /\ LET cycle_signals == evaluate_all(config, cyc.tail, cyc.m1, BtSymbol,
                                         EvalClose)
           triggers == evaluate_m15_triggers(config, cyc.tail, EvalClose)
       IN  cyc' = [cyc EXCEPT
                     !.ran = TRUE,
                     !.signals = cycle_signals,
                     !.triggers = triggers,
                     !.after = IF triggers # << >>
                               THEN register_triggers(cyc.before, BtSymbol,
                                                      triggers)
                               ELSE cyc.before]
    /\ UNCHANGED othersOfCycle

CycleInit ==
    cyc = [tail |-> NoTail, m1 |-> << >>, before |-> << >>, after |-> << >>,
           ran |-> FALSE, triggers |-> << >>, signals |-> << >>]

----------------------------------------------------------------------------
(* strategy.py: the risk context of a signal (_build_risk_context and the    *)
(* risk fields _make_signal copies from it)                                  *)

\* risk_context.atr_stop_multiplier and risk_context.rr_targets
AtrStopMultipliers == {1, 2}
RrTargets == {<<1, 2>>, <<2, 3>>}
\* the last value of calculate_atr on the M15 window
AtrValues == {NaN, 2, 3}
EntryPrices == {100, 110}
\* the fast average at the last M15 bar
M15FastValues == {95, 98, 104}

NoRisk ==
    [risk_stop_distance |-> None, risk_invalidation_price |-> None,
     risk_tp1_price |-> None, risk_tp2_price |-> None]

\* StrategyEvaluator._build_risk_context, its tuple given the names
\* _make_signal unpacks it into
_build_risk_context(cfg, enough_bars, atr_value, direction, entry_price, m15_fast) ==
    IF ~cfg.enabled THEN NoRisk
    ELSE IF ~enough_bars THEN NoRisk
    ELSE IF IsNaN(atr_value) THEN NoRisk
    ELSE
    LET stop_distance == atr_value * cfg.atr_stop_multiplier
        rr1 == cfg.rr_targets[1]
        rr2 == cfg.rr_targets[2]
    IN  [risk_stop_distance |-> stop_distance,
         risk_invalidation_price |-> m15_fast,
         risk_tp1_price |-> IF direction = "BUY"
                            THEN entry_price + stop_distance * rr1
                            ELSE entry_price - stop_distance * rr1,
         risk_tp2_price |-> IF direction = "BUY"
                            THEN entry_price + stop_distance * rr2
                            ELSE entry_price - stop_distance * rr2]

RiskConfigs ==
    [enabled : BOOLEAN, atr_stop_multiplier : AtrStopMultipliers,
     rr_targets : RrTargets]

RiskInputs ==
    [cfg : RiskConfigs, enough_bars : BOOLEAN, atr_value : AtrValues,
     direction : Directions, entry_price : EntryPrices,
     m15_fast : M15FastValues, made : {FALSE}, signal : {NoRisk}]

\* evaluate_all building one signal: _build_risk_context, then _make_signal
\* with risk=risk
make_signal_with_risk ==
    /\ ~risk.made
    /\ risk' = [risk EXCEPT
                  !.made = TRUE,
                  !.signal = _build_risk_context(risk.cfg, risk.enough_bars,
                                 risk.atr_value, risk.direction,
                                 risk.entry_price, risk.m15_fast)]
    /\ UNCHANGED othersOfRisk

RiskInit ==
    risk = [cfg |-> [enabled |-> FALSE, atr_stop_multiplier |-> 1,
                     rr_targets |-> <<1, 2>>],
            enough_bars |-> TRUE, atr_value |-> NaN, direction |-> "BUY",
            entry_price |-> 100, m15_fast |-> 95, made |-> FALSE,
            signal |-> NoRisk]

----------------------------------------------------------------------------
(* strategy.py: _cross_at on two series and an index                         *)

\* length of the series
SeriesLen == 2
\* values of a series
CrossValues == {NaN, 1, 2}
CrossSeries == [1..SeriesLen -> CrossValues]
\* the idx argument, counted from 0; the code takes any integer
CrossIndexes == (-1)..(SeriesLen - 1)

NoCross == <<FALSE, FALSE>>

CrossInputs ==
    [series_a : CrossSeries, series_b : CrossSeries, idx : CrossIndexes,
     called : {FALSE}, result : {NoCross}, swapped : {NoCross}]

\* _cross_at(series_a, series_b, idx) and _cross_at(series_b, series_a, idx)
call_cross_at ==
    /\ ~cross.called
    /\ cross' = [cross EXCEPT
                   !.called = TRUE,
                   !.result = series_cross_at(cross.series_a, cross.series_b,
                                              cross.idx),
                   !.swapped = series_cross_at(cross.series_b, cross.series_a,
                                               cross.idx)]
    /\ UNCHANGED othersOfCross

CrossInit ==
    cross = [series_a |-> << >>, series_b |-> << >>, idx |-> 0,
             called |-> FALSE, result |-> NoCross, swapped |-> NoCross]

----------------------------------------------------------------------------
(* indicators/lwma.py and indicators/stochastic.py                           *)
(*                                                                           *)
(* Indicator values are exact fractions n / d; 0 / 0 is the undefined value  *)
(* (NaN), which is also what a division of zero by zero gives in numpy.      *)

\* length of a close series
CloseLen == 5
ClosePrices == {1, 2, 3}
KPeriods == {1, 2, 3}
DPeriods == {1, 2}
Slowings == {1, 2}

Frac(n, d) == [n |-> n, d |-> d]
Undefined == Frac(0, 0)
IsUndefined(x) == x.d = 0
FracEq(x, y) == ~IsUndefined(x) /\ ~IsUndefined(y) /\ x.n * y.d = y.n * x.d
FracAdd(x, y) ==
    IF x.d = y.d THEN Frac(x.n + y.n, x.d)
    ELSE Frac(x.n * y.d + y.n * x.d, x.d * y.d)

\* the window of `period` values ending at position p
RollingWindow(series, period, p) == SubSeq(series, p - period + 1, p)

SeqMin(s) == CHOOSE x \in {s[i] : i \in 1..Len(s)} : \A i \in 1..Len(s) : x <= s[i]
SeqMax(s) == CHOOSE x \in {s[i] : i \in 1..Len(s)} : \A i \in 1..Len(s) : x >= s[i]

\* lwma.calculate_lwma.weighted: the dot product of the window with the
\* weights 1..period over their sum
RECURSIVE weighted_sum(_, _)
weighted_sum(window, j) ==
    IF j = 0 THEN Frac(0, 1)
    ELSE FracAdd(weighted_sum(window, j - 1),
                 Frac(j * window[j].n, window[j].d))

weighted(window) ==
    LET period == Len(window)
        denominator == (period * (period + 1)) \div 2
        total == weighted_sum(window, period)
    IN  Frac(total.n, total.d * denominator)

\* lwma.calculate_lwma for period > 0: rolling(period).apply, undefined where
\* the window is not full or holds an undefined value
calculate_lwma(series, period) ==
    [p \in 1..Len(series) |->
        IF p < period THEN Undefined
        ELSE IF \E j \in (p - period + 1)..p : IsUndefined(series[j])
        THEN Undefined
        ELSE weighted(RollingWindow(series, period, p))]

\* a variant without the branch for a flat window
RawKNoGuard(close, k_period) ==
    [p \in 1..Len(close) |->
        IF p < k_period THEN Undefined
        ELSE LET lowest == SeqMin(RollingWindow(close, k_period, p))
                 highest == SeqMax(RollingWindow(close, k_period, p))
             IN  Frac((close[p] - lowest) * 100, highest - lowest)]

\* stochastic.calculate_stochastic, raw_k: 50 where the rolling high equals
\* the rolling low
raw_k(close, k_period) ==
    [p \in 1..Len(close) |->
        IF p < k_period THEN Undefined
        ELSE LET lowest == SeqMin(RollingWindow(close, k_period, p))
                 highest == SeqMax(RollingWindow(close, k_period, p))
                 spread == highest - lowest
             IN  IF spread # 0 THEN Frac((close[p] - lowest) * 100, spread)
                 ELSE Frac(50, 1)]

\* stochastic.calculate_stochastic for positive periods: <<raw_k, %K, %D>>
calculate_stochastic(close, k_period, d_period, slowing) ==
    LET raw == raw_k(close, k_period)
        percent_k == calculate_lwma(raw, slowing)
        percent_d == calculate_lwma(percent_k, d_period)
    IN  <<raw, percent_k, percent_d>>

OscInputs ==
    [close : [1..CloseLen -> ClosePrices], k_period : KPeriods,
     d_period : DPeriods, slowing : Slowings, called : {FALSE},
     raw_k : {<< >>}, percent_k : {<< >>}, percent_d : {<< >>}]

call_calculate_stochastic ==
    /\ ~osc.called
    /\ LET out == calculate_stochastic(osc.close, osc.k_period, osc.d_period,
                                       osc.slowing)
       IN  osc' = [osc EXCEPT !.called = TRUE, !.raw_k = out[1],
                              !.percent_k = out[2], !.percent_d = out[3]]
    /\ UNCHANGED othersOfOsc

OscInit ==
    osc = [close |-> << >>, k_period |-> 1, d_period |-> 1, slowing |-> 1,
           called |-> FALSE, raw_k |-> << >>, percent_k |-> << >>,
           percent_d |-> << >>]

----------------------------------------------------------------------------
(* settings.py: load_yaml_config on the indicator section, and the           *)
(* evaluator's check of the columns of a window                              *)

\* values of the configuration file
\* the fast period: not positive, below the slow period, equal to it
FastPeriodValues == {0, 1, 2}
StochKValues == {-1, 0, 3}
\* the buy zone: in order, inverted, reaching into the sell zone
BuyZoneValues == {BuyZone, <<BuyZone[2], BuyZone[1]>>,
                  <<BuyZone[1], SellZone[1]>>}
SellZoneValues == {SellZone, <<SellZone[2], SellZone[1]>>}

\* strategy._has_ohlc: the columns a window must have
RequiredColumns == {"time", "open", "high", "low", "close"}
ColumnSets == {RequiredColumns, RequiredColumns \ {"high"},
               RequiredColumns \ {"time"}}

Raised == [raised |-> TRUE, value |-> 0]
Returned(value) == [raised |-> FALSE, value |-> value]

\* a variant that accepts any integer
ToIntMinUnchecked(value, minimum) == Returned(value)

\* settings._to_int_min on an integer: ValueError below the minimum
_to_int_min(value, minimum) ==
    IF value < minimum THEN Raised ELSE Returned(value)

\* settings._to_zone_tuple on a list of two integers: ValueError when the
\* lower bound is greater than the upper bound
_to_zone_tuple(value) ==
    IF value[1] > value[2] THEN Raised ELSE Returned(value)

\* settings._validate_config, the checks on the indicator section (the slow
\* period of the file is 2 and the candle buffer is large enough)
_validate_config(lwma_fast, buy_zone, sell_zone) ==
    IF lwma_fast >= 2 THEN Raised
    ELSE IF buy_zone[2] >= sell_zone[1] THEN Raised
    ELSE Returned(0)

\* settings.load_yaml_config: TRUE when it raises ValueError
load_yaml_config_raises(file) ==
    \/ _to_int_min(file.lwma_fast, 1).raised
    \/ _to_int_min(file.stoch_k, 1).raised
    \/ _to_zone_tuple(file.buy_zone).raised
    \/ _to_zone_tuple(file.sell_zone).raised
    \/ _validate_config(file.lwma_fast, file.buy_zone, file.sell_zone).raised

_has_ohlc(columns) == RequiredColumns \subseteq columns

\* windows on which evaluate_all returns a signal when their columns are
\* complete
ConfTail ==
    MakeTail(<<1, 3>>, <<2, 2>>, << <<15, 15>>, <<50, 12>> >>, MinAdx + 5)
ConfWindow ==
    MakeWindow(EvalClose - 10, <<0, 0>>,
               [p \in 1..WindowLen |-> IF p = 1 THEN <<12, 15>> ELSE <<15, 12>>],
               [p \in 1..WindowLen |-> <<1, 2>>])

\* StrategyEvaluator.evaluate_all on data frames: _build_m15_context and
\* _build_m1_context return None, and evaluate_all the empty list, when a
\* frame lacks a required column
evaluate_all_frames(m15_columns, m1_columns) ==
    IF ~_has_ohlc(m15_columns) THEN << >>
    ELSE IF ~_has_ohlc(m1_columns) THEN << >>
    ELSE evaluate_all(config, ConfTail, ConfWindow, BtSymbol, EvalClose)

ConfInputs ==
    [file : [lwma_fast : FastPeriodValues, stoch_k : StochKValues,
             buy_zone : BuyZoneValues, sell_zone : SellZoneValues],
     m15_columns : ColumnSets, m1_columns : ColumnSets,
     phase : {"start"}, result : {<< >>}]

\* main.main: load_yaml_config(args.config); a ValueError ends the program
conf_load ==
    /\ conf.phase = "start"
    /\ conf' = [conf EXCEPT
                  !.phase = IF load_yaml_config_raises(conf.file)
                            THEN "ValueError" ELSE "loaded"]
    /\ UNCHANGED othersOfConf

\* the evaluator called on the first windows
conf_evaluate ==
    /\ conf.phase = "loaded"
    /\ conf' = [conf EXCEPT
                  !.phase = "evaluated",
                  !.result = evaluate_all_frames(conf.m15_columns,
                                                 conf.m1_columns)]
    /\ UNCHANGED othersOfConf

ConfInit ==
    conf = [file |-> [lwma_fast |-> 1, stoch_k |-> 3, buy_zone |-> BuyZone,
                      sell_zone |-> SellZone],
            m15_columns |-> RequiredColumns, m1_columns |-> RequiredColumns,
            phase |-> "start", result |-> << >>]

-----------------------------------------------------------------------------
(* models.py: Signal.to_dict and Signal.from_dict, the form in which a       *)
(* signal is kept in the failure queue                                       *)
(*                                                                           *)
(* A signal holds strings, times (minutes) and prices (integers); None is    *)
(* the integer None.  m15_lwma_fast stands for the eight optional indicator  *)
(* fields and risk_stop_distance for the four optional risk fields, which    *)
(* are all converted by the same expression.  matched_scenarios is None or   *)
(* a list: [is_none, items].  A payload maps each key to a JSON value:       *)
(* <<"null">>, <<"str", s>>, <<"num", n>> or <<"list", items>>.              *)

DirectionValues == {"BUY", "SELL"}
ScenarioValues == {"BUY_S1", "BUY_S2", "SELL_S1", "SELL_S2", "BUY_SUMMARY",
                   "SELL_SUMMARY", "BUY_M1", "SELL_M1"}

NoList == [is_none |-> TRUE, items |-> << >>]
List(items) == [is_none |-> FALSE, items |-> items]

null == <<"null">>
is_null(v) == v[1] = "null"

\* datetime.isoformat and datetime.fromisoformat
isoformat(t) == <<"str", <<"iso", t>> >>
fromisoformat(v) == v[2][2]

SignalFields == {"id", "symbol", "direction", "scenario", "price",
                 "created_at_utc", "m1_bar_time_utc", "m15_bar_time_utc",
                 "m15_lwma_fast", "matched_scenarios", "risk_stop_distance"}

\* the fields of Signal without a default
RequiredFields == {"id", "symbol", "direction", "scenario", "price",
                   "created_at_utc", "m1_bar_time_utc"}

\* Signal.to_dict
to_dict(s) ==
    [id |-> <<"str", s.id>>,
     symbol |-> <<"str", s.symbol>>,
     direction |-> <<"str", s.direction>>,
     scenario |-> <<"str", s.scenario>>,
     price |-> <<"num", s.price>>,
     created_at_utc |-> isoformat(s.created_at_utc),
     m15_bar_time_utc |-> IF s.m15_bar_time_utc # None
                          THEN isoformat(s.m15_bar_time_utc) ELSE null,
     m1_bar_time_utc |-> isoformat(s.m1_bar_time_utc),
     m15_lwma_fast |-> IF s.m15_lwma_fast # None
                       THEN <<"num", s.m15_lwma_fast>> ELSE null,
     matched_scenarios |->
         IF ~s.matched_scenarios.is_none /\ Len(s.matched_scenarios.items) > 0
         THEN <<"list", s.matched_scenarios.items>> ELSE null,
     risk_stop_distance |-> IF s.risk_stop_distance # None
                            THEN <<"num", s.risk_stop_distance>> ELSE null]

\* payload.get(key)
payload_get(payload, key) ==
    IF key \in DOMAIN payload THEN payload[key] ELSE null

\* float(payload[key]) if payload.get(key) is not None else None
optional_float(payload, key) ==
    IF ~is_null(payload_get(payload, key)) THEN payload[key][2] ELSE None

\* a variant that reads every field with payload.get and a default
FromDictLenient(payload) ==
    LET text(key, dflt) == IF ~is_null(payload_get(payload, key))
                           THEN payload[key][2] ELSE dflt
        time(key) == IF ~is_null(payload_get(payload, key))
                     THEN fromisoformat(payload[key]) ELSE None
        matched == payload_get(payload, "matched_scenarios")
    IN  Returned(
            [id |-> text("id", "None"),
             symbol |-> text("symbol", "None"),
             direction |-> text("direction", "BUY"),
             scenario |-> text("scenario", "BUY_S1"),
             price |-> optional_float(payload, "price"),
             created_at_utc |-> time("created_at_utc"),
             m1_bar_time_utc |-> time("m1_bar_time_utc"),
             m15_bar_time_utc |-> time("m15_bar_time_utc"),
             m15_lwma_fast |-> optional_float(payload, "m15_lwma_fast"),
             matched_scenarios |-> IF matched[1] = "list"
                                   THEN List(matched[2]) ELSE NoList,
             risk_stop_distance |->
                 optional_float(payload, "risk_stop_distance")])

\* Signal.from_dict: payload[key] of an absent key raises KeyError, and
\* Direction(...) or Scenario(...) of a string that names no member raises
\* ValueError
from_dict(payload) ==
    IF \E key \in RequiredFields : key \notin DOMAIN payload
    THEN Raised
    ELSE IF \/ payload.direction[2] \notin DirectionValues
            \/ payload.scenario[2] \notin ScenarioValues
            \/ /\ payload_get(payload, "matched_scenarios")[1] = "list"
               /\ \E i \in 1..Len(payload.matched_scenarios[2]) :
                    payload.matched_scenarios[2][i] \notin ScenarioValues
    THEN Raised
    ELSE LET matched == payload_get(payload, "matched_scenarios")
         IN  Returned(
                 [id |-> payload.id[2],
                  symbol |-> payload.symbol[2],
                  direction |-> payload.direction[2],
                  scenario |-> payload.scenario[2],
                  price |-> payload.price[2],
                  created_at_utc |-> fromisoformat(payload.created_at_utc),
                  m1_bar_time_utc |-> fromisoformat(payload.m1_bar_time_utc),
                  m15_bar_time_utc |->
                      IF ~is_null(payload_get(payload, "m15_bar_time_utc"))
                      THEN fromisoformat(payload.m15_bar_time_utc) ELSE None,
                  m15_lwma_fast |-> optional_float(payload, "m15_lwma_fast"),
                  matched_scenarios |->
                      IF matched[1] = "list"
                      THEN List(matched[2]) ELSE NoList,
                  risk_stop_distance |->
                      optional_float(payload, "risk_stop_distance")])

\* the signal in the form the key properties read: the matched scenarios as a
\* set, empty when there is none
Keyed(s) ==
    [symbol |-> s.symbol, direction |-> s.direction, scenario |-> s.scenario,
     m15_bar_time_utc |-> s.m15_bar_time_utc,
     m1_bar_time_utc |-> s.m1_bar_time_utc,
     matched_scenarios |-> {s.matched_scenarios.items[i] :
                               i \in 1..Len(s.matched_scenarios.items)}]

\* the signals the evaluator and _build_summary_signal construct: the one of
\* the one-minute path has no primary bar time and no primary values, a
\* merged one lists at least two scenarios
SerSuffixes == {"_S1", "_S2", "_M1", "_SUMMARY"}

SerSignalsOf(d, suffix) ==
    { [id |-> "a1", symbol |-> sym, direction |-> d, scenario |-> d \o suffix,
       price |-> p, created_at_utc |-> 7, m1_bar_time_utc |-> m1,
       m15_bar_time_utc |-> IF suffix = "_M1" THEN None ELSE 3,
       m15_lwma_fast |-> IF suffix = "_M1" THEN None ELSE 5,
       matched_scenarios |-> IF suffix = "_SUMMARY"
                             THEN List(<<d \o "_S1", d \o "_S2">>)
                             ELSE NoList,
       risk_stop_distance |-> r] :
        sym \in Symbols, p \in {3, 4}, m1 \in {1, 2}, r \in {None, 2} }

SerSignals ==
    UNION { SerSignalsOf(d, suffix) : d \in DirectionValues,
                                      suffix \in SerSuffixes }

NoSer == [op |-> "none", signal |-> 0, dropped |-> "", result |-> Raised]

\* enqueue then read back: the signal is written with to_dict and read with
\* from_dict
ser_round_trip ==
    /\ ser.op = "none"
    /\ \E s \in SerSignals :
        /\ ser' = [op |-> "round_trip", signal |-> s, dropped |-> "",
                   result |-> from_dict(to_dict(s))]
    /\ UNCHANGED othersOfSer

\* a record of the queue file that lacks one key is read
ser_read_partial ==
    /\ ser.op = "none"
    /\ \E s \in SerSignals, key \in SignalFields :
        /\ ser' = [op |-> "read_partial", signal |-> s, dropped |-> key,
                   result |-> from_dict(Restrict(to_dict(s),
                                                 SignalFields \ {key}))]
    /\ UNCHANGED othersOfSer

SerInit == ser = NoSer

-----------------------------------------------------------------------------
(* main.py: the frames fetched from the candle source and the primary bars   *)
(* evaluated from them (_closed_bars_only, _replay_startup_window,           *)
(* _process_symbol, _pending_m15_positions and the two one-minute handlers), *)
(* for one symbol with the session filter off                                *)
(*                                                                           *)
(* Time is counted in bars of the timeframe: the bar that opens at t closes  *)
(* at t + 1.  A frame is the sequence of the open times of its rows, oldest  *)
(* first; the candle source returns the latest rows it has, the last of      *)
(* which is the bar that is still forming.  Positions are counted from 1.    *)

\* the number of bars the candle source comes to hold
MaxClock == 6

\* the number of bars of the confirmation timeframe it comes to hold
MaxM1Clock == 2

\* data.candle_buffer
CandleBuffer == 5

\* the numbers of rows of a frame: none, one, a short frame and the full
\* buffer
FrameSizes == {0, 1, 3, CandleBuffer}

\* max(indicators.lwma_slow, indicators.stoch_k) + 2
RequiredBars == 2

\* the number of closed bars _replay_startup_window asks for
ReplayMinBars == 4

\* execution.max_m15_backfill_bars
BackfillCaps == {1, 2}

\* where a handler raises while it works on a bar: inside the evaluation, or
\* after it, while the signals are emitted
FailIn == {"evaluate", "emit"}

\* MT5Client.fetch_candles: the n latest rows, as far as there are that many
fetch_candles(clock, n) ==
    [i \in 1..Min(n, clock) |-> clock - Min(n, clock) + i]

\* a variant that keeps the trailing row
ClosedBarsKeepLast(df) == df

\* main._closed_bars_only
_closed_bars_only(df) ==
    IF Len(df) <= 1 THEN << >> ELSE SubSeq(df, 1, Len(df) - 1)

\* m15_closed["time"] + timedelta(minutes=15)
m15_close_times(m15_closed) == [i \in DOMAIN m15_closed |-> m15_closed[i] + 1]

\* the positions whose close time is after the cursor (the list comprehension
\* of _pending_m15_positions)
pending_after(last_processed, close_times) ==
    SelectSeq([i \in DOMAIN close_times |-> i],
              LAMBDA idx : close_times[idx] > last_processed)

\* a variant without the cap
PendingM15PositionsUncapped(last_processed, close_times, cap) ==
    IF last_processed = None
    THEN <<Len(close_times)>>
    ELSE pending_after(last_processed, close_times)

\* TradingSignalBotApp._pending_m15_positions
_pending_m15_positions(last_processed, close_times, cap) ==
    IF last_processed = None
    THEN <<Len(close_times)>>
    ELSE LET pending == pending_after(last_processed, close_times)
         IN  IF Len(pending) <= cap THEN pending
             ELSE SubSeq(pending, Len(pending) - cap + 1, Len(pending))

\* one evaluation of a primary bar: the handler, the number of evaluations
\* made before the handler was called, the close time the evaluator was
\* given, the primary rows it was given, the frame they were taken from and
\* the cursor at that moment
Evaluation(by, run, close, slice, frame, cursor) ==
    [by |-> by, run |-> run, close |-> close, slice |-> slice,
     frame |-> frame, cursor |-> cursor]

\* a variant that hands the evaluator every closed row of the frame
LiveSliceWhole(m15_closed, pos) == m15_closed

\* m15_closed.iloc[: pos + 1]
live_slice(m15_closed, pos) == SubSeq(m15_closed, 1, pos)

\* m15_closed[m15_closed["time"] <= row["time"]]
replay_slice(m15_closed, row_time) ==
    SelectSeq(m15_closed, LAMBDA t : t <= row_time)

\* the for loop of _process_symbol over pending_positions, from the i-th on;
\* the exception of fail_at leaves the loop
RECURSIVE _process_symbol_loop(_, _, _, _, _, _, _, _)
_process_symbol_loop(l, run, frame, m15_closed, positions, i, fail_at, fail_in) ==
    IF i > Len(positions) THEN l
    ELSE IF fail_at = i /\ fail_in = "evaluate" THEN l
    ELSE LET pos == positions[i]
             m15_close == m15_close_times(m15_closed)[pos]
             done == [l EXCEPT
                 !.evaluations = Append(@,
                     Evaluation("live", run, m15_close,
                                live_slice(m15_closed, pos), frame,
                                l.last_processed_m15_close)),
                 !.last_processed_m15_close = m15_close]
         IN  IF fail_at = i THEN done
             ELSE _process_symbol_loop(done, run, frame, m15_closed,
                                       positions, i + 1, fail_at, fail_in)

\* the for loop of _replay_startup_window over replay_rows, from the i-th on:
\* <<state, raised>>; a row m15_requires_m1 is false for is passed over
RECURSIVE _replay_loop(_, _, _, _, _, _, _, _, _)
_replay_loop(l, run, frame, m15_closed, replay_rows, i, required, fail_at, fail_in) ==
    IF i > Len(replay_rows) THEN <<l, FALSE>>
    ELSE IF i \notin required
    THEN _replay_loop(l, run, frame, m15_closed, replay_rows, i + 1,
                      required, fail_at, fail_in)
    ELSE IF fail_at = i /\ fail_in = "evaluate" THEN <<l, TRUE>>
    ELSE LET row_time == replay_rows[i]
             done == [l EXCEPT
                 !.evaluations = Append(@,
                     Evaluation("replay", run, row_time + 1,
                                replay_slice(m15_closed, row_time), frame,
                                l.last_processed_m15_close))]
         IN  IF fail_at = i THEN <<done, TRUE>>
             ELSE _replay_loop(done, run, frame, m15_closed, replay_rows,
                               i + 1, required, fail_at, fail_in)

\* the candle source opens the next bar of the primary timeframe
m15_bar_opens ==
    /\ live.clock < MaxClock
    /\ live' = [live EXCEPT !.clock = @ + 1]
    /\ UNCHANGED othersOfLive

\* the candle source opens the next bar of the confirmation timeframe
m1_bar_opens ==
    /\ live.m1_clock < MaxM1Clock
    /\ live' = [live EXCEPT !.m1_clock = @ + 1]
    /\ UNCHANGED othersOfLive

\* TradingSignalBotApp._replay_startup_window for one symbol, on a frame of n
\* rows
_replay_startup_window(n, required, fail_at, fail_in) ==
    /\ ~live.started
    /\ LET m15 == fetch_candles(live.clock, n)
           m15_closed == _closed_bars_only(m15)
           started == [live EXCEPT !.started = TRUE]
       IN  IF Len(m15_closed) < ReplayMinBars
           THEN /\ required = {} /\ fail_at = 0 /\ fail_in = "evaluate"
                /\ live' = started
           ELSE LET replay_rows == SubSeq(m15_closed,
                                          Len(m15_closed) - ReplayBars + 1,
                                          Len(m15_closed))
                    out == _replay_loop(started, Len(live.evaluations), m15,
                                        m15_closed, replay_rows, 1, required,
                                        fail_at, fail_in)
                IN  /\ fail_at \in required \cup {0}
                    /\ fail_at = 0 => fail_in = "evaluate"
                    /\ live' = IF out[2] THEN out[1]
                               ELSE [out[1] EXCEPT
                                   !.last_processed_m15_close =
                                       m15_closed[Len(m15_closed)] + 1]
    /\ UNCHANGED othersOfLive

\* TradingSignalBotApp._process_symbol on a frame of n rows
live_process_symbol(n, fail_at, fail_in) ==
    /\ live.started
    /\ LET m15 == fetch_candles(live.clock, n)
           m15_closed == _closed_bars_only(m15)
           pending_positions ==
               _pending_m15_positions(live.last_processed_m15_close,
                                      m15_close_times(m15_closed),
                                      live.max_m15_backfill_bars)
           \* the close times of the pending bars the cap leaves out
           left_out ==
               IF live.last_processed_m15_close = None THEN {}
               ELSE LET pending ==
                            pending_after(live.last_processed_m15_close,
                                          m15_close_times(m15_closed))
                    IN  {m15_close_times(m15_closed)[pending[j]] :
                            j \in 1..(Len(pending) - Len(pending_positions))}
       IN  IF Len(m15_closed) < RequiredBars
           THEN /\ fail_at = 0 /\ fail_in = "evaluate"
                /\ UNCHANGED live
           ELSE /\ fail_at \in 0..Len(pending_positions)
                /\ fail_at = 0 => fail_in = "evaluate"
                /\ live' = _process_symbol_loop(
                               [live EXCEPT !.cut = @ \cup left_out],
                               Len(live.evaluations), m15, m15_closed,
                               pending_positions, 1, fail_at, fail_in)
    /\ UNCHANGED othersOfLive

\* the head of _evaluate_pending_chain_signal and of _evaluate_m1_only_signal
\* on a frame of n rows: the snapshot the pending setups are advanced with is
\* taken from the last closed row, and so is the one-minute cursor
live_m1_cycle(n) ==
    /\ live.started
    /\ LET m1 == fetch_candles(live.m1_clock, n)
           m1_closed == _closed_bars_only(m1)
       IN  IF Len(m1_closed) = 0
           THEN live' = [live EXCEPT !.m1_frame = m1]
           ELSE live' = [live EXCEPT
                    !.m1_frame = m1,
                    !.snapshot_bar = m1_closed[Len(m1_closed)],
                    !.last_processed_m1_close =
                        IF @ = None \/ m1_closed[Len(m1_closed)] + 1 > @
                        THEN m1_closed[Len(m1_closed)] + 1 ELSE @]
    /\ UNCHANGED othersOfLive

\* before the start of the program
LiveInit ==
    live \in [clock : {1}, m1_clock : {1}, started : {FALSE},
              max_m15_backfill_bars : BackfillCaps,
              last_processed_m15_close : {None}, evaluations : {<< >>},
              cut : {{}}, m1_frame : {<< >>}, snapshot_bar : {None},
              last_processed_m1_close : {None}]

-----------------------------------------------------------------------------
(* settings.py: the candle-buffer check of _validate_config, and             *)
(* strategy.py: the values _build_m15_context needs at the last two bars     *)

\* values of the configuration file (data.candle_buffer is at least 3)
WarmSlowValues == {2, 3}
WarmKValues == {1, 2, 3}
WarmDValues == {1, 2, 3, 4}
WarmSlowingValues == {1, 2}
WarmBufferValues == 3..7

\* close prices of a frame of n bars: rising, flat, or going up and down
WarmCloses(n) ==
    {[i \in 1..n |-> i], [i \in 1..n |-> 2], [i \in 1..n |-> 1 + (i % 2)]}

\* settings._validate_config, min_required
min_required(cfg) == Max(cfg.lwma_slow, cfg.stoch_k) + cfg.stoch_slowing + 2

\* settings._validate_config, the check of data.candle_buffer: TRUE when it
\* raises ValueError
candle_buffer_rejected(cfg) == cfg.candle_buffer < min_required(cfg)

\* strategy._build_m15_context on a frame of close prices: "short" when the
\* frame has fewer than max(lwma_slow, stoch_k) + 2 rows, "undefined" when
\* one of the eight values at the last two rows is undefined, else "context"
m15_context_of(cfg, close) ==
    IF Len(close) < Max(cfg.lwma_slow, cfg.stoch_k) + 2 THEN "short"
    ELSE LET close_float == [i \in DOMAIN close |-> Frac(close[i], 1)]
             fast == calculate_lwma(close_float, cfg.lwma_fast)
             slow == calculate_lwma(close_float, cfg.lwma_slow)
             stoch == calculate_stochastic(close, cfg.stoch_k, cfg.stoch_d,
                                           cfg.stoch_slowing)
             idx == Len(close)
         IN  IF idx < 2 THEN "short"
             ELSE IF \E p \in {idx - 1, idx} :
                        \/ IsUndefined(fast[p]) \/ IsUndefined(slow[p])
                        \/ IsUndefined(stoch[2][p])
                        \/ IsUndefined(stoch[3][p])
             THEN "undefined"
             ELSE "context"

WarmInputs ==
    [cfg : [lwma_fast : {1}, lwma_slow : WarmSlowValues,
            stoch_k : WarmKValues, stoch_d : WarmDValues,
            stoch_slowing : WarmSlowingValues,
            candle_buffer : WarmBufferValues],
     phase : {"start"}, rows : {0}, context : {"none"}]

\* load_yaml_config up to the candle-buffer check
warm_load ==
    /\ warmup.phase = "start"
    /\ warmup' = [warmup EXCEPT
           !.phase = IF candle_buffer_rejected(warmup.cfg) THEN "ValueError"
                     ELSE "loaded"]
    /\ UNCHANGED othersOfWarm

\* the evaluator is handed a frame of closed bars: a full buffer, or the
\* buffer less the trailing row _closed_bars_only drops
warm_build_m15_context ==
    /\ warmup.phase = "loaded"
    /\ \E n \in {warmup.cfg.candle_buffer - 1, warmup.cfg.candle_buffer},
          close \in WarmCloses(warmup.cfg.candle_buffer) :
        warmup' = [warmup EXCEPT
            !.phase = "evaluated", !.rows = n,
            !.context = m15_context_of(warmup.cfg, SubSeq(close, 1, n))]
    /\ UNCHANGED othersOfWarm

WarmInit ==
    warmup = [cfg |-> [lwma_fast |-> 1, lwma_slow |-> 2, stoch_k |-> 1,
                     stoch_d |-> 1, stoch_slowing |-> 1, candle_buffer |-> 5],
            phase |-> "start", rows |-> 0, context |-> "none"]

-----------------------------------------------------------------------------
(* utils.py: single_instance_lock, entered by processes that start at the    *)
(* same time on one lock file                                                *)
(*                                                                           *)
(* The lock file is absent or holds the text its creator has written so far  *)
(* ("" until the pid is written); ino names the process whose os.open        *)
(* created the file that now has the name.                                   *)

LockProcs == {"p1", "p2", "p3"}

\* the pid of a process that ended without removing its lock file
DeadPid == "dead"

LockAbsent == [exists |-> FALSE, ino |-> "", pid |-> ""]

\* utils._read_lock_pid: None (here "") when the file is absent or holds no
\* number
_read_lock_pid(file) == IF file.exists THEN file.pid ELSE ""

\* utils._is_pid_running for the pid of the lock file
_is_pid_running(pid, running) == pid \in running

\* the processes that have not ended
Running == {p \in LockProcs : lck.pc[p] \notin {"failed", "done"}}

\* os.open(lock_file, O_CREAT | O_EXCL | O_WRONLY) in the for loop
lock_open(p) ==
    /\ lck.pc[p] = "open"
    /\ IF ~lck.file.exists
       THEN lck' = [lck EXCEPT
                !.file = [exists |-> TRUE, ino |-> p, pid |-> ""],
                !.pc[p] = "write"]
       ELSE lck' = [lck EXCEPT !.pc[p] = "exists"]
    /\ UNCHANGED othersOfLock

\* except FileExistsError: the pid of the file is read and looked up
lock_read_pid(p) ==
    /\ lck.pc[p] = "exists"
    /\ LET existing_pid == _read_lock_pid(lck.file)
       IN  IF existing_pid # "" /\ ~_is_pid_running(existing_pid, Running)
           THEN lck' = [lck EXCEPT !.pc[p] = "unlink"]
           ELSE lck' = [lck EXCEPT !.pc[p] = "failed"]
    /\ UNCHANGED othersOfLock

\* lock_file.unlink(missing_ok=True); continue: the file that has the name
\* now is removed, and the loop ends after its second pass
lock_unlink_stale(p) ==
    /\ lck.pc[p] = "unlink"
    /\ lck' = [lck EXCEPT
           !.file = LockAbsent,
           !.taken_over = IF lck.file.exists /\ lck.file.pid = DeadPid
                          THEN @ \cup {p} ELSE @,
           !.removed_live = @ \/ (lck.file.exists
                                  /\ lck.file.ino \in Running),
           !.passes[p] = @ + 1,
           !.pc[p] = IF lck.passes[p] + 1 >= 2 THEN "failed" ELSE "open"]
    /\ UNCHANGED othersOfLock

\* os.write(fd, pid): the text goes to the file the process created, whether
\* or not it still has the name; then the body of the with statement begins
lock_write_pid(p) ==
    /\ lck.pc[p] = "write"
    /\ lck' = [lck EXCEPT
           !.file = IF lck.file.exists /\ lck.file.ino = p
                    THEN [lck.file EXCEPT !.pid = p] ELSE lck.file,
           !.pc[p] = "inside"]
    /\ UNCHANGED othersOfLock

\* finally: os.close(fd) and _read_lock_pid
lock_exit_read(p) ==
    /\ lck.pc[p] = "inside"
    /\ lck' = [lck EXCEPT
           !.pc[p] = IF _read_lock_pid(lck.file) = p THEN "exit_unlink"
                     ELSE "done"]
    /\ UNCHANGED othersOfLock

\* if existing_pid == pid: lock_file.unlink(missing_ok=True)
lock_exit_unlink(p) ==
    /\ lck.pc[p] = "exit_unlink"
    /\ lck' = [lck EXCEPT
           !.file = LockAbsent,
           !.removed_foreign = @ \/ (lck.file.exists /\ lck.file.ino # p),
           !.pc[p] = "done"]
    /\ UNCHANGED othersOfLock

\* the processes are about to start; the lock file is absent or was left by
\* a process that is dead
LockInputs ==
    [file : {LockAbsent, [exists |-> TRUE, ino |-> DeadPid, pid |-> DeadPid]},
     pc : {[p \in LockProcs |-> "open"]},
     passes : {[p \in LockProcs |-> 0]},
     taken_over : {{}}, removed_live : {FALSE}, removed_foreign : {FALSE}]

LockInit ==
    lck = [file |-> LockAbsent, pc |-> [p \in LockProcs |-> "open"],
           passes |-> [p \in LockProcs |-> 0], taken_over |-> {},
           removed_live |-> FALSE, removed_foreign |-> FALSE]

----------------------------------------------------------------------------
(* main.py: summary merging in _emit_signals *)

MaxEmission == 2

MaxSumTime == 3

SumBars == {1}

SumFailable == {"BUY_SUMMARY"}

\* the signals of one symbol an evaluation can hand to _emit_signals
SumSignals ==
    { MakeSignal(sym, d, d \o sc, b, b) :
        sym \in Symbols, d \in Directions, sc \in {"_S1", "_S2"}, b \in SumBars }

\* one emission: distinct signals of one confirmation bar
SumEmissions ==
    UNION { { sq \in [1..n -> SumSignals] :
                /\ \A i, j \in 1..n : i # j => sq[i] # sq[j]
                /\ \A i, j \in 1..n :
                        sq[i].m1_bar_time_utc = sq[j].m1_bar_time_utc } :
            n \in 1..MaxEmission }

group_key(signal) == <<signal.symbol, signal.direction>>

\* the keys of the dict `grouped`, in insertion order
RECURSIVE grouped_keys(_, _, _)
grouped_keys(signals, i, acc) ==
    IF i > Len(signals) THEN acc
    ELSE IF \E j \in 1..Len(acc) : acc[j] = group_key(signals[i])
         THEN grouped_keys(signals, i + 1, acc)
         ELSE grouped_keys(signals, i + 1, Append(acc, group_key(signals[i])))

\* grouped[key]: the signals of one (symbol, direction), in emission order
grouped_signals_of(signals, key) ==
    SelectSeq(signals, LAMBDA s : group_key(s) = key)

\* TradingSignalBotApp._build_summary_signal: the first signal with the
\* latest confirmation bar is the base; matched_scenarios is the sorted set
\* of the group's scenarios
_build_summary_signal(grouped_signals) ==
    LET n == Len(grouped_signals)
        b == CHOOSE j \in 1..n :
                /\ \A h \in 1..n : grouped_signals[h].m1_bar_time_utc
                                    <= grouped_signals[j].m1_bar_time_utc
                /\ \A h \in 1..(j - 1) : grouped_signals[h].m1_bar_time_utc
                                    < grouped_signals[j].m1_bar_time_utc
        base == grouped_signals[b]
    IN  [symbol |-> base.symbol, direction |-> base.direction,
         scenario |-> base.direction \o "_SUMMARY",
         m15_bar_time_utc |-> base.m15_bar_time_utc,
         m1_bar_time_utc |-> base.m1_bar_time_utc,
         matched_scenarios |-> {grouped_signals[j].scenario : j \in 1..n}]

\* the inner loop of _emit_signals over to_send[i..]: should_emit, then
\* _send_with_record; after a summary has been sent the loop over the grouped
\* signals calls DedupStore.record_idempotency_only, which DedupStore does not
\* define, so the call raises AttributeError before anything is recorded
RECURSIVE _emit_to_send(_, _, _, _, _, _)
_emit_to_send(d, to_send, grouped_signals, summarized, fails, i) ==
    IF i > Len(to_send) \/ d.raised THEN d
    ELSE LET signal == to_send[i]
             pruned == _prune_in_memory(d.dedup, d.now)
             gated == [d EXCEPT !.dedup = pruned]
         IN  IF ~should_emit_result(pruned, signal, d.now)
             THEN _emit_to_send(gated, to_send, grouped_signals, summarized,
                                fails, i + 1)
             ELSE IF signal.scenario \in fails
             THEN _emit_to_send(gated, to_send, grouped_signals, summarized,
                                fails, i + 1)
             ELSE LET sent ==
                        [gated EXCEPT
                            !.dedup = record_state(pruned, signal, d.now),
                            !.sent = Append(@, signal)]
                  IN  IF summarized
                      THEN [sent EXCEPT
                                !.raised = TRUE,
                                !.last_merged =
                                    @ \cup {grouped_signals[j] :
                                              j \in 1..Len(grouped_signals)}]
                      ELSE _emit_to_send(sent, to_send, grouped_signals,
                                         summarized, fails, i + 1)

\* the loop of _emit_signals over the groups keys[g..]
RECURSIVE _emit_grouped(_, _, _, _, _)
_emit_grouped(d, signals, keys, fails, g) ==
    IF g > Len(keys) \/ d.raised THEN d
    ELSE LET grouped_signals == grouped_signals_of(signals, keys[g])
             summarized == d.enabled /\ Len(grouped_signals) > 1
             to_send == IF summarized
                        THEN <<_build_summary_signal(grouped_signals)>>
                        ELSE grouped_signals
         IN  _emit_grouped(
                _emit_to_send(d, to_send, grouped_signals, summarized, fails, 1),
                signals, keys, fails, g + 1)

\* TradingSignalBotApp._emit_signals(signals); the sends of the scenarios in
\* fails return False
sum_emit_signals(signals, fails) ==
    /\ summ' = _emit_grouped(
                    [summ EXCEPT !.raised = FALSE, !.last_merged = {}],
                    signals, grouped_keys(signals, 1, <<>>), fails, 1)
    /\ UNCHANGED othersOfSum

\* the wall clock advances between two emissions
sum_tick ==
    /\ summ.now < MaxSumTime
    /\ summ' = [summ EXCEPT !.now = @ + 1]
    /\ UNCHANGED othersOfSum

SumInputs ==
    [enabled : BOOLEAN, now : {0}, dedup : {DefaultState}, sent : {<<>>},
     last_merged : {{}}, raised : {FALSE}]

SumInit ==
    summ = [enabled |-> TRUE, now |-> 0, dedup |-> DefaultState,
            sent |-> <<>>, last_merged |-> {}, raised |-> FALSE]

----------------------------------------------------------------------------
(* strategy.py: advance_pending_setup applied again with the same snapshot *)

\* the setups _register_m15_triggers can store, in either state
AdvSetups ==
    UNION { { [PendingSetup(BtSymbol, triggers[i]) EXCEPT !.state = st] :
                i \in 1..Len(triggers),
                st \in {"WAIT_M1_LWMA", "WAIT_M1_STOCH"} } :
            triggers \in { evaluate_m15_triggers(
                                [require_opposite_zone_on_lwma_cross |-> TRUE,
                                 regime_filter_enabled |-> FALSE], tail, 1) :
                            tail \in ChainM15Tails } }

\* the snapshots latest_m1_snapshot returns
AdvSnapshots ==
    { latest_m1_snapshot(tail, 2) :
        tail \in {t \in M1Tails : m1_snapshot_defined(t)} }

AdvInputs ==
    [cfg : Configs, pending : AdvSetups, snapshot : AdvSnapshots,
     calls : {0}, once : {Kept(p) : p \in AdvSetups},
     twice : {Kept(p) : p \in AdvSetups}]

\* advance_pending_setup(pending, snapshot) on a stored setup
adv_advance ==
    /\ adv.calls = 0
    /\ adv' = [adv EXCEPT
                !.calls = 1,
                !.once = advance_pending_setup(adv.cfg, adv.pending,
                                               adv.snapshot)]
    /\ UNCHANGED othersOfAdv

\* advance_pending_setup on the setup the first call returned, with the same
\* snapshot
adv_advance_again ==
    /\ adv.calls = 1
    /\ adv.once.kept
    /\ adv' = [adv EXCEPT
                !.calls = 2,
                !.twice = advance_pending_setup(adv.cfg, adv.once.pending,
                                                adv.snapshot)]
    /\ UNCHANGED othersOfAdv

AdvInit ==
    adv = [cfg |-> [require_opposite_zone_on_lwma_cross |-> TRUE,
                    regime_filter_enabled |-> FALSE],
           pending |-> CHOOSE p \in AdvSetups : TRUE,
           snapshot |-> CHOOSE s \in AdvSnapshots : TRUE,
           calls |-> 0,
           once |-> Kept(CHOOSE p \in AdvSetups : TRUE),
           twice |-> Kept(CHOOSE p \in AdvSetups : TRUE)]

----------------------------------------------------------------------------
(* Specifications *)

DefaultConfig == [require_opposite_zone_on_lwma_cross |-> TRUE,
                  regime_filter_enabled |-> FALSE]

\* the dedup store driven through its interface
InitDedup ==
    /\ DedupStoreInit /\ BacktestInit /\ TriggerInit /\ ChainInit
    /\ DeliveryInit /\ NotifierInit /\ BackoffInit
    /\ WorkerInit /\ StoreInit /\ ConcInit
    /\ RepeatInit
    /\ EvalInit
    /\ CycleInit
    /\ RiskInit
    /\ CrossInit
    /\ OscInit
    /\ ConfInit
    /\ SerInit
    /\ LiveInit
    /\ LockInit
    /\ SumInit
    /\ AdvInit
    /\ WarmInit
    /\ config = DefaultConfig

NextDedup ==
    \/ Tick
    \/ \E s \in DedupSignals : should_emit(s)
    \/ \E s \in DedupSignals : record(s)
    \/ load_state

SpecDedup == InitDedup /\ [][NextDedup]_vars

\* the backtester's loop over historical bars (its evaluator is built without
\* a regime filter)
InitBacktest ==
    /\ DedupStoreInit /\ BacktestInit /\ TriggerInit /\ ChainInit
    /\ DeliveryInit /\ NotifierInit /\ BackoffInit
    /\ WorkerInit /\ StoreInit /\ ConcInit
    /\ RepeatInit
    /\ EvalInit
    /\ CycleInit
    /\ RiskInit
    /\ CrossInit
    /\ OscInit
    /\ ConfInit
    /\ SerInit
    /\ LiveInit
    /\ LockInit
    /\ SumInit
    /\ AdvInit
    /\ WarmInit
    /\ config \in {c \in Configs : ~c.regime_filter_enabled}

NextBacktest ==
    \/ \E tail \in M15Tails : BtM15Close(tail)
    \/ \E tail \in M1Tails : BtAdvance(tail)

SpecBacktest == InitBacktest /\ [][NextBacktest]_vars

\* the trigger evaluation on every window, under every configuration
InitTrig ==
    /\ DedupStoreInit /\ BacktestInit /\ TriggerInit /\ ChainInit
    /\ DeliveryInit /\ NotifierInit /\ BackoffInit
    /\ WorkerInit /\ StoreInit /\ ConcInit
    /\ RepeatInit
    /\ EvalInit
    /\ CycleInit
    /\ RiskInit
    /\ CrossInit
    /\ OscInit
    /\ ConfInit
    /\ SerInit
    /\ LiveInit
    /\ LockInit
    /\ SumInit
    /\ AdvInit
    /\ WarmInit
    /\ config \in Configs

NextTrig == \E tail \in M15Tails : call_evaluate_m15_triggers(tail)

SpecTrig == InitTrig /\ [][NextTrig]_vars

\* the chain path of the live loop against a market feed
InitChain ==
    /\ DedupStoreInit /\ BacktestInit /\ TriggerInit /\ ChainInit
    /\ DeliveryInit /\ NotifierInit /\ BackoffInit
    /\ WorkerInit /\ StoreInit /\ ConcInit
    /\ RepeatInit
    /\ EvalInit
    /\ CycleInit
    /\ RiskInit
    /\ CrossInit
    /\ OscInit
    /\ ConfInit
    /\ SerInit
    /\ LiveInit
    /\ LockInit
    /\ SumInit
    /\ AdvInit
    /\ WarmInit
    /\ config = DefaultConfig

NextChain ==
    \/ \E tail \in ChainM1Tails, dt \in {1, _PENDING_SETUP_MAX_AGE} :
            NewM1Bar(tail, dt)
    \/ NewM15Bar
    \/ \E tail \in ChainM15Tails : _process_symbol(tail)
    \/ _evaluate_pending_chain_signal

SpecChain == InitChain /\ [][NextChain]_vars

\* the M15-only loop with its delivery path, across process restarts
InitDelivery ==
    /\ DedupStoreInit /\ BacktestInit /\ TriggerInit /\ ChainInit
    /\ DeliveryInit /\ NotifierInit /\ BackoffInit
    /\ WorkerInit /\ StoreInit /\ ConcInit
    /\ RepeatInit
    /\ EvalInit
    /\ CycleInit
    /\ RiskInit
    /\ CrossInit
    /\ OscInit
    /\ ConfInit
    /\ SerInit
    /\ LiveInit
    /\ LockInit
    /\ SumInit
    /\ AdvInit
    /\ WarmInit
    /\ config = DefaultConfig

NextDelivery ==
    \/ \E result \in BarResults : NewM15Close(result)
    \/ \E dry \in BOOLEAN, hello_ok \in BOOLEAN,
          oks \in [1..ReplayBars -> BOOLEAN] : startup(dry, hello_ok, oks)
    \/ \E oks \in [1..ReplayBars -> BOOLEAN] : _run_m15_cycle(oks)
    \/ \E oks \in [1..MaxQueue -> BOOLEAN] : retry_failed_queue(oks)
    \/ ProcessExit
    \/ QueueFileDamaged
    \/ \E i \in 1..MaxQueue : QueueItemDamaged(i)

SpecDelivery == InitDelivery /\ [][NextDelivery]_vars

\* a notifier under every setting, driven through send_signal and
\* retry_failed_queue
InitNotifier ==
    /\ DedupStoreInit /\ BacktestInit /\ TriggerInit /\ ChainInit
    /\ DeliveryInit
    /\ config = DefaultConfig
    /\ \E cfg \in NotifierConfigs : NotifierStart(cfg)
    /\ BackoffInit
    /\ WorkerInit /\ StoreInit /\ ConcInit
    /\ RepeatInit
    /\ EvalInit
    /\ CycleInit
    /\ RiskInit
    /\ CrossInit
    /\ OscInit
    /\ ConfInit
    /\ SerInit
    /\ LiveInit
    /\ LockInit
    /\ SumInit
    /\ AdvInit
    /\ WarmInit

NextNotifier ==
    \/ \E responses \in ResponseRuns(notifier.cfg.max_retries) :
            send_signal(responses)
    \/ \E responses \in [1..Len(notifier.items) ->
                            RetryRuns(notifier.cfg.max_retries)] :
            notifier_retry_failed_queue(responses)

SpecNotifier == InitNotifier /\ [][NextNotifier]_vars

\* _send_message_with_retry on every sequence of transport answers
InitBackoff ==
    /\ DedupStoreInit /\ BacktestInit /\ TriggerInit /\ ChainInit
    /\ DeliveryInit /\ NotifierInit
    /\ config = DefaultConfig
    /\ backoff \in BackoffInputs
    /\ WorkerInit /\ StoreInit /\ ConcInit
    /\ RepeatInit
    /\ EvalInit
    /\ CycleInit
    /\ RiskInit
    /\ CrossInit
    /\ OscInit
    /\ ConfInit
    /\ SerInit
    /\ LiveInit
    /\ LockInit
    /\ SumInit
    /\ AdvInit
    /\ WarmInit

NextBackoff == call_send_message_with_retry

SpecBackoff == InitBackoff /\ [][NextBackoff]_vars

\* run_forever, either loop, with exceptions and an interrupt at any point
InitWorker ==
    /\ DedupStoreInit /\ BacktestInit /\ TriggerInit /\ ChainInit
    /\ DeliveryInit /\ NotifierInit /\ BackoffInit
    /\ config = DefaultConfig
    /\ \E loop \in Loops : WorkerStart(loop)
    /\ StoreInit
    /\ ConcInit
    /\ RepeatInit
    /\ EvalInit
    /\ CycleInit
    /\ RiskInit
    /\ CrossInit
    /\ OscInit
    /\ ConfInit
    /\ SerInit
    /\ LiveInit
    /\ LockInit
    /\ SumInit
    /\ AdvInit
    /\ WarmInit

NextWorker ==
    \/ \E run_m15 \in BOOLEAN : WakeUp(run_m15)
    \/ \E outcome \in {"ok", "error"} : process_symbol(outcome)
    \/ \E outcome \in {"ok", "error"} : run_tail(outcome)
    \/ failure_sleep_over
    \/ \E after_send \in BOOLEAN : KeyboardInterrupt(after_send)

SpecWorker == InitWorker /\ [][NextWorker]_vars

\* the two persisted stores across starts, writes and kills of the process
InitStore ==
    /\ DedupStoreInit /\ BacktestInit /\ TriggerInit /\ ChainInit
    /\ DeliveryInit /\ NotifierInit /\ BackoffInit /\ WorkerInit
    /\ config = DefaultConfig
    /\ \E d \in DedupContents, q \in QueueContents : StoreStart(d, q)
    /\ ConcInit
    /\ RepeatInit
    /\ EvalInit
    /\ CycleInit
    /\ RiskInit
    /\ CrossInit
    /\ OscInit
    /\ ConfInit
    /\ SerInit
    /\ LiveInit
    /\ LockInit
    /\ SumInit
    /\ AdvInit
    /\ WarmInit

NextStore ==
    \/ \E crash \in CrashPoints : DedupStore_init(crash)
    \/ \E crash \in CrashPoints : store_record(crash)
    \/ \E crash \in CrashPoints : TelegramNotifier_init(crash)
    \/ \E grow \in BOOLEAN, crash \in CrashPoints :
            store_queue_write(grow, crash)
    \/ store_exit

SpecStore == InitStore /\ [][NextStore]_vars

\* two threads calling the operations of one DedupStore
InitConc ==
    /\ DedupStoreInit /\ BacktestInit /\ TriggerInit /\ ChainInit
    /\ DeliveryInit /\ NotifierInit /\ BackoffInit /\ WorkerInit
    /\ StoreInit
    /\ config = DefaultConfig
    /\ ConcInit
    /\ RepeatInit
    /\ EvalInit
    /\ CycleInit
    /\ RiskInit
    /\ CrossInit
    /\ OscInit
    /\ ConfInit
    /\ SerInit
    /\ LiveInit
    /\ LockInit
    /\ SumInit
    /\ AdvInit
    /\ WarmInit

NextConc ==
    \E t \in Threads :
        \/ \E op \in StoreOps : conc_call(t, op)
        \/ conc_acquire(t)
        \/ conc_check(t)
        \/ conc_write(t)
        \/ conc_read(t)
        \/ conc_persist(t)

SpecConc == InitConc /\ [][NextConc]_vars

\* record and enqueue repeated with one signal, from every start
InitRepeat ==
    /\ DedupStoreInit /\ BacktestInit /\ TriggerInit /\ ChainInit
    /\ DeliveryInit /\ NotifierInit /\ BackoffInit /\ WorkerInit
    /\ StoreInit
    /\ config = DefaultConfig
    /\ ConcInit
    /\ EvalInit
    /\ CycleInit
    /\ RiskInit
    /\ CrossInit
    /\ OscInit
    /\ ConfInit
    /\ SerInit
    /\ LiveInit
    /\ LockInit
    /\ SumInit
    /\ AdvInit
    /\ WarmInit
    /\ rep \in RepeatInputs

NextRepeat == repeat_record \/ repeat_enqueue

SpecRepeat == InitRepeat /\ [][NextRepeat]_vars

\* the evaluator called once on a pair of windows
InitEval ==
    /\ DedupStoreInit /\ BacktestInit /\ TriggerInit /\ ChainInit
    /\ DeliveryInit /\ NotifierInit /\ BackoffInit /\ WorkerInit
    /\ StoreInit /\ ConcInit /\ RepeatInit /\ CycleInit
    /\ RiskInit
    /\ CrossInit
    /\ OscInit
    /\ ConfInit
    /\ SerInit
    /\ LiveInit
    /\ LockInit
    /\ SumInit
    /\ AdvInit
    /\ WarmInit
    /\ config = EvalConfig
    /\ ev \in EvalInputs

NextEval == call_evaluate_all \/ call_evaluate_m1_only

SpecEval == InitEval /\ [][NextEval]_vars

\* one closed M15 bar processed by the live loop
InitCycle ==
    /\ DedupStoreInit /\ BacktestInit /\ TriggerInit /\ ChainInit
    /\ DeliveryInit /\ NotifierInit /\ BackoffInit /\ WorkerInit
    /\ StoreInit /\ ConcInit /\ RepeatInit /\ EvalInit /\ RiskInit
    /\ CrossInit
    /\ OscInit
    /\ ConfInit
    /\ SerInit
    /\ LiveInit
    /\ LockInit
    /\ SumInit
    /\ AdvInit
    /\ WarmInit
    /\ config \in {c \in Configs : c.require_opposite_zone_on_lwma_cross}
    /\ cyc \in CycleInputs

NextCycle == process_m15_bar

SpecCycle == InitCycle /\ [][NextCycle]_vars

\* one signal built with its risk context
InitRisk ==
    /\ DedupStoreInit /\ BacktestInit /\ TriggerInit /\ ChainInit
    /\ DeliveryInit /\ NotifierInit /\ BackoffInit /\ WorkerInit
    /\ StoreInit /\ ConcInit /\ RepeatInit /\ EvalInit /\ CycleInit
    /\ CrossInit
    /\ OscInit
    /\ ConfInit
    /\ SerInit
    /\ LiveInit
    /\ LockInit
    /\ SumInit
    /\ AdvInit
    /\ WarmInit
    /\ config = DefaultConfig
    /\ risk \in RiskInputs

NextRisk == make_signal_with_risk

SpecRisk == InitRisk /\ [][NextRisk]_vars

\* _cross_at called on a pair of series
InitCross ==
    /\ DedupStoreInit /\ BacktestInit /\ TriggerInit /\ ChainInit
    /\ DeliveryInit /\ NotifierInit /\ BackoffInit /\ WorkerInit
    /\ StoreInit /\ ConcInit /\ RepeatInit /\ EvalInit /\ CycleInit
    /\ RiskInit /\ OscInit
    /\ ConfInit
    /\ SerInit
    /\ LiveInit
    /\ LockInit
    /\ SumInit
    /\ AdvInit
    /\ WarmInit
    /\ config = DefaultConfig
    /\ cross \in CrossInputs

NextCross == call_cross_at

SpecCross == InitCross /\ [][NextCross]_vars

\* calculate_stochastic called on a close series
InitOsc ==
    /\ DedupStoreInit /\ BacktestInit /\ TriggerInit /\ ChainInit
    /\ DeliveryInit /\ NotifierInit /\ BackoffInit /\ WorkerInit
    /\ StoreInit /\ ConcInit /\ RepeatInit /\ EvalInit /\ CycleInit
    /\ RiskInit /\ CrossInit /\ ConfInit
    /\ SerInit
    /\ LiveInit
    /\ LockInit
    /\ SumInit
    /\ AdvInit
    /\ WarmInit
    /\ config = DefaultConfig
    /\ osc \in OscInputs

NextOsc == call_calculate_stochastic

SpecOsc == InitOsc /\ [][NextOsc]_vars

\* the program started on a configuration file and a data source
InitConf ==
    /\ DedupStoreInit /\ BacktestInit /\ TriggerInit /\ ChainInit
    /\ DeliveryInit /\ NotifierInit /\ BackoffInit /\ WorkerInit
    /\ StoreInit /\ ConcInit /\ RepeatInit /\ EvalInit /\ CycleInit
    /\ RiskInit /\ CrossInit /\ OscInit
    /\ SerInit
    /\ LiveInit
    /\ LockInit
    /\ SumInit
    /\ AdvInit
    /\ WarmInit
    /\ config = DefaultConfig
    /\ conf \in ConfInputs

NextConf == conf_load \/ conf_evaluate

SpecConf == InitConf /\ [][NextConf]_vars


\* a signal written to the failure queue and read back
InitSer ==
    /\ DedupStoreInit /\ BacktestInit /\ TriggerInit /\ ChainInit
    /\ DeliveryInit /\ NotifierInit /\ BackoffInit /\ WorkerInit
    /\ StoreInit /\ ConcInit /\ RepeatInit /\ EvalInit /\ CycleInit
    /\ RiskInit /\ CrossInit /\ OscInit /\ ConfInit
    /\ config = DefaultConfig
    /\ SerInit
    /\ LiveInit
    /\ LockInit
    /\ SumInit
    /\ AdvInit
    /\ WarmInit

NextSer == ser_round_trip \/ ser_read_partial

SpecSer == InitSer /\ [][NextSer]_vars


\* the program started on a candle source that keeps opening bars
InitLive ==
    /\ DedupStoreInit /\ BacktestInit /\ TriggerInit /\ ChainInit
    /\ DeliveryInit /\ NotifierInit /\ BackoffInit /\ WorkerInit
    /\ StoreInit /\ ConcInit /\ RepeatInit /\ EvalInit /\ CycleInit
    /\ RiskInit /\ CrossInit /\ OscInit /\ ConfInit /\ SerInit
    /\ config = DefaultConfig
    /\ LiveInit
    /\ LockInit
    /\ SumInit
    /\ AdvInit
    /\ WarmInit

NextLive ==
    \/ m15_bar_opens
    \/ m1_bar_opens
    \/ \E n \in FrameSizes, required \in SUBSET (1..ReplayBars),
          fail_at \in 0..ReplayBars, fail_in \in FailIn :
            _replay_startup_window(n, required, fail_at, fail_in)
    \/ \E n \in FrameSizes, fail_at \in 0..CandleBuffer,
          fail_in \in FailIn :
            live_process_symbol(n, fail_at, fail_in)
    \/ \E n \in FrameSizes : live_m1_cycle(n)

SpecLive == InitLive /\ [][NextLive]_vars


\* the program started on a configuration file, then handed a frame
InitWarm ==
    /\ DedupStoreInit /\ BacktestInit /\ TriggerInit /\ ChainInit
    /\ DeliveryInit /\ NotifierInit /\ BackoffInit /\ WorkerInit
    /\ StoreInit /\ ConcInit /\ RepeatInit /\ EvalInit /\ CycleInit
    /\ RiskInit /\ CrossInit /\ OscInit /\ ConfInit /\ SerInit /\ LiveInit
    /\ LockInit
    /\ SumInit
    /\ AdvInit
    /\ config = DefaultConfig
    /\ warmup \in WarmInputs

NextWarm == warm_load \/ warm_build_m15_context

SpecWarm == InitWarm /\ [][NextWarm]_vars


\* processes started at the same time on one lock file
InitLock ==
    /\ DedupStoreInit /\ BacktestInit /\ TriggerInit /\ ChainInit
    /\ DeliveryInit /\ NotifierInit /\ BackoffInit /\ WorkerInit
    /\ StoreInit /\ ConcInit /\ RepeatInit /\ EvalInit /\ CycleInit
    /\ RiskInit /\ CrossInit /\ OscInit /\ ConfInit /\ SerInit /\ LiveInit
    /\ WarmInit /\ SumInit
    /\ AdvInit
    /\ config = DefaultConfig
    /\ lck \in LockInputs

NextLock ==
    \E p \in LockProcs :
        \/ lock_open(p)
        \/ lock_read_pid(p)
        \/ lock_unlink_stale(p)
        \/ lock_write_pid(p)
        \/ lock_exit_read(p)
        \/ lock_exit_unlink(p)

SpecLock == InitLock /\ [][NextLock]_vars

\* emissions with and without summary merging
InitSum ==
    /\ DedupStoreInit /\ BacktestInit /\ TriggerInit /\ ChainInit
    /\ DeliveryInit /\ NotifierInit /\ BackoffInit /\ WorkerInit
    /\ StoreInit /\ ConcInit /\ RepeatInit /\ EvalInit /\ CycleInit
    /\ RiskInit /\ CrossInit /\ OscInit /\ ConfInit /\ SerInit /\ LiveInit
    /\ WarmInit /\ LockInit
    /\ AdvInit
    /\ config = DefaultConfig
    /\ summ \in SumInputs

NextSum ==
    \/ \E signals \in SumEmissions, fails \in SUBSET SumFailable :
            sum_emit_signals(signals, fails)
    \/ sum_tick

SpecSum == InitSum /\ [][NextSum]_vars

\* a setup advanced twice with one snapshot
InitAdv ==
    /\ DedupStoreInit /\ BacktestInit /\ TriggerInit /\ ChainInit
    /\ DeliveryInit /\ NotifierInit /\ BackoffInit /\ WorkerInit
    /\ StoreInit /\ ConcInit /\ RepeatInit /\ EvalInit /\ CycleInit
    /\ RiskInit /\ CrossInit /\ OscInit /\ ConfInit /\ SerInit /\ LiveInit
    /\ WarmInit /\ LockInit /\ SumInit
    /\ config = DefaultConfig
    /\ adv \in AdvInputs
    /\ adv.once = Kept(adv.pending) /\ adv.twice = Kept(adv.pending)

NextAdv == adv_advance \/ adv_advance_again

SpecAdv == InitAdv /\ [][NextAdv]_vars

----------------------------------------------------------------------------
(* Claims about the dedup store *)

\* the time of the latest record of the key the call that has just returned
\* asked about (None when that key has never been recorded)
LastCallRecordedAt ==
    IF idempotency_key(lastShouldEmit.signal) \in DOMAIN lastRecorded
    THEN lastRecorded[idempotency_key(lastShouldEmit.signal)]
    ELSE None

\* C1 as stated: after record(s), should_emit is false for every signal with
\* the idempotency key of s, at any later time.
C1_AlwaysBlocked ==
    (lastShouldEmit.called /\ LastCallRecordedAt # None)
        => lastShouldEmit.result = FALSE

\* C1 amended: after record(s), should_emit is false for every signal with the
\* idempotency key of s for as long as no more than the retention window has
\* elapsed since the latest record of that key, whatever record / should_emit
\* calls or reloads come in between.
C1_BlockedWithinRetention ==
    (lastShouldEmit.called /\ LastCallRecordedAt # None
        /\ now - LastCallRecordedAt <= RetentionTicks)
        => lastShouldEmit.result = FALSE

\* C1 witness: a key was recorded, the store was asked about it exactly at the
\* end of the retention window, and the answer was no.
C1_Witness ==
    /\ lastShouldEmit.called
    /\ LastCallRecordedAt # None
    /\ now - LastCallRecordedAt = RetentionTicks
    /\ lastShouldEmit.result = FALSE

\* some signal of the cooldown key of the last call was recorded less than a
\* cooldown window before the call
RecentSameCooldown ==
    \E s \in DedupSignals :
        /\ cooldown_key(s) = cooldown_key(lastShouldEmit.signal)
        /\ idempotency_key(s) \in DOMAIN lastRecorded
        /\ now - lastRecorded[idempotency_key(s)] < CooldownTicks

\* C2: for a signal whose idempotency key was never recorded, should_emit is
\* false exactly when a signal of the same (symbol, direction) was recorded
\* less than the cooldown window before; so once the window has elapsed a
\* signal with another bar timestamp is accepted.
C2_CooldownIff ==
    (lastShouldEmit.called /\ LastCallRecordedAt = None)
        => (lastShouldEmit.result = FALSE <=> RecentSameCooldown)

\* C2 witness: a never-recorded key is accepted although its (symbol,
\* direction) was recorded before, the cooldown window having just elapsed.
C2_Witness ==
    /\ lastShouldEmit.called
    /\ LastCallRecordedAt = None
    /\ lastShouldEmit.result = TRUE
    /\ \E s \in DedupSignals :
        /\ cooldown_key(s) = cooldown_key(lastShouldEmit.signal)
        /\ idempotency_key(s) \in DOMAIN lastRecorded
        /\ now - lastRecorded[idempotency_key(s)] = CooldownTicks

----------------------------------------------------------------------------
(* Claims about the two-stage confirmation of a pending setup *)

\* the conditions of a confirmation bar, read in the direction of a setup
OwnLwmaCross(p, s) ==
    IF p.direction = "BUY" THEN s.lwma_cross_above ELSE s.lwma_cross_below

OwnStochCross(p, s) ==
    IF p.direction = "BUY" THEN s.stoch_cross_above ELSE s.stoch_cross_below

InOwnZone(p, s) ==
    IF p.direction = "BUY" THEN s.stoch_in_buy_zone ELSE s.stoch_in_sell_zone

InOppositeZone(p, s) ==
    IF p.direction = "BUY" THEN s.stoch_in_sell_zone ELSE s.stoch_in_buy_zone

\* the scenarios that tag the chain signal of a setup
ChainScenarioOf(p) ==
    IF p.mode = "HIGH_PROBABILITY"
    THEN (IF p.direction = "BUY" THEN "BUY_CHAIN_HP" ELSE "SELL_CHAIN_HP")
    ELSE (IF p.direction = "BUY" THEN "BUY_CHAIN" ELSE "SELL_CHAIN")

\* the signals the last advance emitted for the setup p
EmittedFor(p) ==
    {j \in 1..Len(bt_emitted) :
        /\ bt_emitted[j].direction = p.direction
        /\ bt_emitted[j].scenario = ChainScenarioOf(p)}

\* the setup p is in the map after the last advance, exactly as value q
KeptAs(p, q) ==
    /\ SetupKey(p) \in DictKeys(pending_map)
    /\ DictGet(pending_map, SetupKey(p)) = q
    /\ EmittedFor(p) = {}

\* C5: a chain signal is emitted only by a setup that was moved to
\* awaiting-oscillator-cross on an earlier confirmation bar (not before its
\* trigger) and meets the oscillator-cross condition on the current, later
\* bar; a setup still awaiting the average cross emits nothing, and nothing
\* is emitted by a step that advances no setup.
C5_BothStagesInOrder ==
    /\ ~bt_last.called => bt_emitted = << >>
    /\ bt_last.called =>
        /\ \A j \in 1..Len(bt_emitted) :
              \E i \in 1..Len(bt_last.before) :
                LET p == bt_last.before[i] IN
                /\ j \in EmittedFor(p)
                /\ p.state = "WAIT_M1_STOCH"
                /\ SetupKey(p) \in DOMAIN bt_last.stage1_before
                /\ bt_last.stage1_before[SetupKey(p)]
                        < bt_last.snapshot.bar_time_utc
                /\ bt_last.stage1_before[SetupKey(p)] >= p.m15_trigger_time_utc
                /\ OwnStochCross(p, bt_last.snapshot)
                /\ InOwnZone(p, bt_last.snapshot)
        /\ \A i \in 1..Len(bt_last.before) :
              bt_last.before[i].state = "WAIT_M1_LWMA"
                  => EmittedFor(bt_last.before[i]) = {}

\* C5 witness: a setup that reached awaiting-oscillator-cross on an earlier
\* bar has just emitted its chain signal.
C5_Witness ==
    /\ bt_last.called
    /\ \E i \in 1..Len(bt_last.before) :
        LET p == bt_last.before[i] IN
        /\ EmittedFor(p) # {}
        /\ p.state = "WAIT_M1_STOCH"
        /\ bt_last.stage1_before[SetupKey(p)] < bt_last.snapshot.bar_time_utc

\* the stage-1 condition of C6 for setup p on the bar of snapshot s
Stage1Condition(p, s) ==
    /\ OwnLwmaCross(p, s)
    /\ config.require_opposite_zone_on_lwma_cross => InOppositeZone(p, s)
    /\ ~OwnStochCross(p, s)

\* C6: a setup awaiting the average cross moves to awaiting-oscillator-cross
\* on a confirmation bar exactly when the bar has an average cross in the
\* setup's direction, %K is in the opposite zone (if the option is on) and
\* there is no oscillator cross in the setup's direction on that bar; in every
\* other case the setup is kept unchanged; in both cases no signal is emitted.
C6_Stage1Iff ==
    bt_last.called =>
        \A i \in 1..Len(bt_last.before) :
            LET p == bt_last.before[i] IN
            p.state = "WAIT_M1_LWMA" =>
                IF Stage1Condition(p, bt_last.snapshot)
                THEN KeptAs(p, [p EXCEPT !.state = "WAIT_M1_STOCH"])
                ELSE KeptAs(p, p)

\* C6 witness: with the opposite-zone option on, a bar later than the trigger
\* bar met the stage-1 condition and moved a setup that was still awaiting the
\* average cross to awaiting-oscillator-cross.
C6_Witness ==
    /\ bt_last.called
    /\ config.require_opposite_zone_on_lwma_cross
    /\ \E i \in 1..Len(bt_last.before) :
        LET p == bt_last.before[i] IN
        /\ p.state = "WAIT_M1_LWMA"
        /\ Stage1Condition(p, bt_last.snapshot)
        /\ KeptAs(p, [p EXCEPT !.state = "WAIT_M1_STOCH"])
        /\ bt_last.snapshot.bar_time_utc > p.m15_trigger_time_utc

\* the chain signal C7 expects from setup p on the bar of snapshot s
ExpectedChainSignal(p, s) ==
    [symbol |-> p.symbol, direction |-> p.direction,
     scenario |-> ChainScenarioOf(p),
     m15_bar_time_utc |-> p.m15_trigger_time_utc,
     m1_bar_time_utc |-> s.bar_time_utc,
     matched_scenarios |-> {},
     m15_lwma_fast |-> p.m15_lwma_fast, m15_lwma_slow |-> p.m15_lwma_slow,
     m15_stoch_k |-> p.m15_stoch_k, m15_stoch_d |-> p.m15_stoch_d,
     m1_lwma_fast |-> s.lwma_fast, m1_lwma_slow |-> s.lwma_slow,
     m1_stoch_k |-> s.stoch_k, m1_stoch_d |-> s.stoch_d]

----------------------------------------------------------------------------
(* Claims about the live chain path *)

\* the setup p is older than the maximum age at the bar the last run saw
ExpiredAt(p, bar) == (bar - p.m15_trigger_time_utc) > _PENDING_SETUP_MAX_AGE

\* C8 as stated: once _evaluate_pending_chain_signal has run on a confirmation
\* bar, no setup whose trigger is more than 8 hours before that bar is left in
\* the map, and no signal was emitted for such a setup.
C8_ExpiredRemoved ==
    chain_last.ran =>
        /\ \A i \in 1..Len(pending_setups) :
              ~ExpiredAt(pending_setups[i], chain_last.bar)
        /\ \A j \in 1..Len(chain_emitted) :
              (chain_last.bar - chain_emitted[j].m15_bar_time_utc)
                  <= _PENDING_SETUP_MAX_AGE

\* C9 as stated: a run that sees a new confirmation bar advances every live
\* (not expired) setup once, and a run that sees the bar of the run before
\* advances none.
C9_AdvancedOncePerNewBar ==
    chain_last.ran =>
        IF chain_last.new_bar
        THEN chain_last.advanced = chain_last.live
        ELSE chain_last.advanced = {}

\* in the live loop the advance call never returns: no setup leaves
\* awaiting-average-cross and no chain signal is handed to _emit_signals
ChainNeverAdvances ==
    /\ chain_emitted = << >>
    /\ chain_last.advanced = {}
    /\ \A i \in 1..Len(pending_setups) :
          pending_setups[i].state = "WAIT_M1_LWMA"

----------------------------------------------------------------------------
(* Claims about evaluate_m15_triggers *)

\* the triggers of direction d in the result of the last call
TriggersOf(d) == {i \in 1..Len(trig.result) : trig.result[i].direction = d}

\* the trigger conditions of direction d hold on the window of the last call
TriggerConditions(d) ==
    /\ m15_context_defined(trig.tail)
    /\ _passes_regime_filter(config, trig.tail)
    /\ IF d = "BUY"
       THEN /\ trig.tail.fast[2] > trig.tail.slow[2]
            /\ stoch_in_zone(trig.tail.k[2], BuyZone)
            /\ _cross_at(trig.tail.k, trig.tail.d)[1]
       ELSE /\ trig.tail.fast[2] < trig.tail.slow[2]
            /\ stoch_in_zone(trig.tail.k[2], SellZone)
            /\ _cross_at(trig.tail.k, trig.tail.d)[2]

\* the averages cross in direction d at the latest bar of the last call
AveragesCross(d) ==
    IF d = "BUY" THEN _cross_at(trig.tail.fast, trig.tail.slow)[1]
    ELSE _cross_at(trig.tail.fast, trig.tail.slow)[2]

\* C10 as stated: evaluate_m15_triggers returns at most one trigger per
\* direction; when the conditions of a direction hold, the one trigger of that
\* direction is high-probability if the averages also cross in the direction
\* at the latest bar, and normal otherwise.
C10_OneTriggerPerDirection ==
    trig.called =>
        \A d \in Directions :
            /\ Cardinality(TriggersOf(d)) <= 1
            /\ TriggerConditions(d) =>
                /\ Cardinality(TriggersOf(d)) = 1
                /\ \A i \in TriggersOf(d) :
                      trig.result[i].mode =
                          IF AveragesCross(d) THEN "HIGH_PROBABILITY"
                          ELSE "NORMAL"

----------------------------------------------------------------------------
(* Claims about the delivery path *)

\* C3 as stated: across evaluation cycles, failed sends, retries of the failure
\* queue and process restarts, the transport never receives two alerts with
\* the same idempotency key.
C3_NoDuplicateDelivery == duplicated = {}

\* C4 as stated: every signal accepted by the dedup gate has been received by
\* the transport, or is still in the failure queue file, or was dropped
\* because its retry count reached the maximum or the queue overflowed.
C4_AcceptedAccountedFor ==
    \A k \in accepted :
        \/ k \in delivered
        \/ k \in ItemKeys(queue_file.items)
        \/ <<k, "max_retries">> \in dropped
        \/ <<k, "overflow">> \in dropped

----------------------------------------------------------------------------
(* Claims about trigger registration *)

Opposite(d) == IF d = "BUY" THEN "SELL" ELSE "BUY"

\* C11: once a trigger (direction D, mode m) has been registered, the map
\* holds no setup of the opposite direction with mode m, and the setup under
\* (D, m) is the fresh one built from that trigger (awaiting the average
\* cross, with the trigger's time and values), whatever setup was stored
\* under (D, m) before.
C11_RegisterReplaces ==
    \A i \in 1..Len(bt_last.triggers) :
        LET t == bt_last.triggers[i] IN
        /\ <<t.direction, t.mode>> \in DictKeys(pending_map)
        /\ DictGet(pending_map, <<t.direction, t.mode>>)
              = PendingSetup(BtSymbol, t)
        /\ DictGet(pending_map, <<t.direction, t.mode>>).state = "WAIT_M1_LWMA"
        /\ <<Opposite(t.direction), t.mode>> \notin DictKeys(pending_map)

\* C11 happens: a trigger is registered over a setup of the same direction
\* and mode that was already awaiting the oscillator cross
C11_Witness ==
    \E i \in 1..Len(bt_last.triggers) :
        LET key == <<bt_last.triggers[i].direction, bt_last.triggers[i].mode>> IN
        /\ key \in DictKeys(bt_last.reg_before)
        /\ DictGet(bt_last.reg_before, key).state = "WAIT_M1_STOCH"
        /\ DictGet(bt_last.reg_before, key).m15_trigger_time_utc
              < bt_last.triggers[i].m15_close_time_utc

\* a trigger is registered into a map holding a setup of the opposite
\* direction with the same mode
C11_OppositeBefore ==
    \E i \in 1..Len(bt_last.triggers) :
        <<Opposite(bt_last.triggers[i].direction), bt_last.triggers[i].mode>>
            \in DictKeys(bt_last.reg_before)

----------------------------------------------------------------------------
(* Claims about the notifier *)

\* the error text a failed post leaves behind
ErrorOf(response) ==
    IF response.status = "exception" THEN "exception"
    ELSE IF response.status = "429" THEN "rate_limited"
    ELSE IF response.status = "200" THEN "body"
    ELSE "status"

AllAttemptsFail(responses) ==
    \A i \in 1..Len(responses) : responses[i] # Delivered

FirstSuccess(responses) ==
    CHOOSE i \in 1..Len(responses) :
        /\ responses[i] = Delivered
        /\ \A j \in 1..(i - 1) : responses[j] # Delivered

\* C12: a send_signal call whose posts all fail makes max_retries posts,
\* returns false and leaves exactly one new item at the end of the queue, with
\* retry_count max_retries and the error of the last post; a call with a
\* successful post stops at the first success and queues nothing.
C12_ExhaustedSendQueuesOnce ==
    (ncall.op = "send_signal" /\ ~notifier.cfg.dry_run) =>
        LET n == notifier.cfg.max_retries
            items == notifier.items
        IN  IF AllAttemptsFail(ncall.responses)
            THEN /\ ncall.attempts = n
                 /\ ~ncall.returned
                 /\ Len(items) >= 1
                 /\ items[Len(items)].signal = ncall.signal
                 /\ items[Len(items)].retry_count = n
                 /\ items[Len(items)].last_error = ErrorOf(ncall.responses[n])
                 /\ Cardinality({i \in 1..Len(items) :
                                    items[i].signal = ncall.signal}) = 1
                 /\ \E k \in 0..Len(ncall.before) :
                        SubSeq(items, 1, Len(items) - 1)
                            = SubSeq(ncall.before, k + 1, Len(ncall.before))
            ELSE /\ ncall.returned
                 /\ ncall.attempts = FirstSuccess(ncall.responses)
                 /\ items = ncall.before

\* C12 happens: several posts fail with different errors and the signal is
\* queued behind an older item
C12_Witness ==
    /\ ncall.op = "send_signal"
    /\ ~notifier.cfg.dry_run
    /\ notifier.cfg.max_retries >= 2
    /\ AllAttemptsFail(ncall.responses)
    /\ ncall.responses[1] # ncall.responses[notifier.cfg.max_retries]
    /\ Len(notifier.items) = 2
    /\ notifier.items[2].signal = ncall.signal

\* C13 as stated: in a retry pass an item is dropped exactly when, with the
\* failure of this pass, it has failed max_failed_retry_count times since it
\* was enqueued; until then a failing item stays in the queue.
C13_DroppedAfterMaxFailedFurther ==
    (ncall.op = "retry_failed_queue" /\ ~notifier.cfg.dry_run) =>
        \A i \in 1..Len(ncall.fates) :
            LET f == ncall.fates[i] IN
            /\ f.fate = "dropped"
                  => f.item.fails = notifier.cfg.max_failed_retry_count
            /\ (f.fate = "kept"
                  => f.item.fails < notifier.cfg.max_failed_retry_count)
            /\ f.fate \in {"dropped", "kept"} => f.attempts > 0

\* what the code does instead: the counter starts at max_retries, so an item
\* is dropped in the pass where max_retries plus its failed passes reaches
\* max_failed_retry_count, and in its first pass, without a post, when
\* max_retries is already that large
C13_DroppedAtCounterLimit ==
    (ncall.op = "retry_failed_queue" /\ ~notifier.cfg.dry_run) =>
        \A i \in 1..Len(ncall.fates) :
            LET f == ncall.fates[i]
                cfg == notifier.cfg
            IN
            /\ f.item.retry_count = cfg.max_retries + f.item.fails
            /\ f.fate = "dropped"
                  => \/ f.item.retry_count = cfg.max_failed_retry_count
                     \/ /\ f.attempts = 0
                        /\ cfg.max_retries >= cfg.max_failed_retry_count
            /\ f.fate = "kept"
                  => f.item.retry_count < cfg.max_failed_retry_count

\* C14 as stated: a retry_failed_queue pass makes exactly one post for each
\* queued item; an item whose post succeeds is no longer queued and an item
\* whose post fails has its retry counter incremented by exactly one.
C14_OneAttemptPerItem ==
    (ncall.op = "retry_failed_queue" /\ ~notifier.cfg.dry_run) =>
        \A i \in 1..Len(ncall.fates) :
            LET f == ncall.fates[i] IN
            /\ f.attempts = 1
            /\ f.fate = "sent"
                  => \A j \in 1..Len(notifier.items) :
                        notifier.items[j].signal # f.item.signal
            /\ f.fate # "sent"
                  => f.item.retry_count = ncall.before[i].retry_count + 1

\* the posts of a pass: up to max_retries for each item below the counter
\* limit, none for an item at the limit
C14_AttemptsPerItem ==
    (ncall.op = "retry_failed_queue" /\ ~notifier.cfg.dry_run) =>
        \A i \in 1..Len(ncall.fates) :
            LET f == ncall.fates[i]
                cfg == notifier.cfg
            IN
            IF ncall.before[i].retry_count >= cfg.max_failed_retry_count
            THEN f.attempts = 0 /\ f.fate = "dropped"
            ELSE /\ f.attempts \in 1..cfg.max_retries
                 /\ f.fate # "sent" => f.attempts = cfg.max_retries

QueuedSignals(items) == {items[i].signal : i \in 1..Len(items)}

\* C15: the queue never holds more than max_queue items, its items are in
\* the order they were enqueued (signals are numbered in the order they are
\* sent), and an enqueue that overflows keeps the new item and drops only
\* items older than every item it keeps.
C15_BoundedFifo ==
    LET items == notifier.items IN
    /\ Len(items) <= notifier.cfg.max_queue
    /\ \A i, j \in 1..Len(items) : i < j => items[i].signal < items[j].signal
    /\ (ncall.op = "send_signal" /\ ~ncall.returned) =>
         /\ items # << >>
         /\ items[Len(items)].signal = ncall.signal
         /\ \A old \in QueuedSignals(ncall.before) \ QueuedSignals(items) :
               \A kept \in QueuedSignals(items) : old < kept
         /\ QueuedSignals(ncall.before) \ QueuedSignals(items) # {}
               => Len(items) = notifier.cfg.max_queue

\* C15 happens: a failed send finds the queue full of two items and the
\* older of them is dropped
C15_Witness ==
    /\ ncall.op = "send_signal"
    /\ ~ncall.returned
    /\ notifier.cfg.max_queue = 2
    /\ Len(ncall.before) = 2
    /\ notifier.items[1].signal = ncall.before[2].signal
    /\ ncall.before[1].signal \notin QueuedSignals(notifier.items)

\* the doubling backoff, capped at 8 seconds
Doubling(attempt) ==
    IF attempt = 1 THEN 1
    ELSE IF attempt = 2 THEN 2
    ELSE IF attempt = 3 THEN 4
    ELSE 8

FailedPosts(b) ==
    {i \in 1..b.max_retries :
        \A j \in 1..i : b.responses[j] # Delivered}

\* C16 as stated: after its i-th failed post the notifier waits the doubling
\* backoff of attempt i, except that after a rate-limit answer carrying a
\* retry-after hint it waits exactly the hint.
C16_BackoffOrExactHint ==
    backoff.called =>
        /\ DOMAIN backoff.result.sleeps = FailedPosts(backoff)
        /\ \A i \in FailedPosts(backoff) :
              LET r == backoff.responses[i] IN
              backoff.result.sleeps[i] =
                  IF r.status = "429" /\ r.retry_after # NoHint
                  THEN r.retry_after
                  ELSE Doubling(i)

\* C16 amended: after a rate-limit answer the wait is the hint raised to at
\* least 1 second, and 1 second when the answer carries no usable hint; after
\* any other failure it is the doubling backoff of the attempt.
C16_BackoffOrFlooredHint ==
    backoff.called =>
        /\ DOMAIN backoff.result.sleeps = FailedPosts(backoff)
        /\ \A i \in FailedPosts(backoff) :
              LET r == backoff.responses[i] IN
              backoff.result.sleeps[i] =
                  IF r.status # "429" THEN Doubling(i)
                  ELSE IF r.retry_after = NoHint \/ r.retry_after < 1 THEN 1
                  ELSE r.retry_after

\* C16 happens: five failed posts, the fourth a rate-limit answer with a hint
\* of 3 seconds: the waits are 1, 2, 4, 3, 8
C16_Witness ==
    /\ backoff.called
    /\ backoff.max_retries = 5
    /\ backoff.responses[4] = RateLimited(3)
    /\ backoff.result.sleeps = <<1, 2, 4, 3, 8>>

----------------------------------------------------------------------------
(* Claims about the worker loop *)

\* C17: a pass over the symbols that has run to its end has called every
\* configured symbol, in configured order, whichever of them raised.
C17_FailureDoesNotStopLaterSymbols ==
    /\ worker.last_pass.name # "none"
          => worker.last_pass.called = WorkerSymbols
    /\ worker.pc \in {"m15", "m1"}
          => /\ worker.called = SubSeq(WorkerSymbols, 1, Len(worker.called))
             /\ \A k \in 1..Len(WorkerSymbols) :
                   WorkerSymbols[k] \in worker.raised
                      => k <= Len(worker.called)

\* C17 happens: the first symbol raised and the pass went on to call the
\* other two
C17_Witness ==
    /\ worker.last_pass.name # "none"
    /\ WorkerSymbols[1] \in worker.last_pass.raised
    /\ Len(worker.last_pass.called) = 3
    /\ worker.last_pass.called[3] = WorkerSymbols[3]

\* C18 as stated: run_forever returns on the shutdown signal only from
\* between two cycles, never from inside a started cycle, and never between
\* a confirmed send and its dedup record.
C18_ShutdownOnlyBetweenCycles ==
    worker.pc = "returned" =>
        /\ worker.stopped_in \in {"sleep", "failure_sleep"}
        /\ worker.unrecorded = {}

\* after the signal nothing more is started
C18_NothingStartedAfterShutdown ==
    [][worker.pc = "returned" => worker' = worker]_vars

----------------------------------------------------------------------------
(* Claims about the persisted files *)

\* C19: load_state on a state file that cannot be parsed or has not the
\* expected structure returns: the store is constructed with both key maps
\* empty, the bad file is now the .corrupt backup, and the state file holds
\* the complete empty state.
C19_CorruptStateQuarantined ==
    (/\ last_io.op = "load_state"
     /\ last_io.crash = "none"
     /\ last_io.found.kind \notin {"absent", "complete"}) =>
        /\ stores.dedup = "up"
        /\ stores.state = [idempotency_keys |-> {}, cooldown_keys |-> {}]
        /\ disk.dedup.corrupt = last_io.found
        /\ disk.dedup.file
              = Complete([idempotency_keys |-> {}, cooldown_keys |-> {}])

\* C19 happens: the store has been constructed from a state file that was a
\* JSON object without the key maps
C19_Witness ==
    /\ last_io.op = "load_state"
    /\ last_io.crash = "none"
    /\ last_io.found = MissingMaps
    /\ stores.dedup = "up"
    /\ disk.dedup.corrupt = MissingMaps

\* C20: the file of a store never holds a partly written payload, and after
\* a write over a complete (or absent) file, wherever the process was
\* killed, the file holds what it held before or the complete new payload.
C20_AtomicReplace ==
    /\ \A s \in {"dedup", "queue"} : disk[s].file.kind # "partial"
    /\ (last_io.op # "none" /\ last_io.found.kind \in {"absent", "complete"})
          => \/ disk[last_io.store].file = last_io.found
             \/ disk[last_io.store].file = Complete(last_io.wrote)

\* C20 happens: the process was killed between writing the temporary file
\* and renaming it, and the state file still holds the previous payload
C20_Witness ==
    /\ last_io.op = "record"
    /\ last_io.crash = "before_replace"
    /\ last_io.found.kind = "complete"
    /\ last_io.found.payload # last_io.wrote
    /\ disk.dedup.file = last_io.found
    /\ disk.dedup.tmp = Complete(last_io.wrote)

\* a kill while the temporary file is being written leaves a partial
\* temporary file and the previous queue file
C20_KilledInDump ==
    /\ last_io.op = "persist_queue"
    /\ last_io.crash = "in_dump"
    /\ disk.queue.tmp.kind = "partial"
    /\ disk.queue.file = last_io.found
    /\ last_io.found.kind = "complete"

----------------------------------------------------------------------------
(* Claims about the dedup store under concurrent callers *)

\* the threads that are inside a read-modify-write of the dedup state
InSection(t) == conc.threads[t].pc \in {"check", "write", "persist"}

\* C21 as stated: a thread inside a read-modify-write of the dedup state
\* (of should_emit, record or load_state) holds the lock, so no two are in
\* one at the same time, and every key whose record() has returned is in the
\* state file and in memory once no call is running.
C21_AllSectionsLocked ==
    /\ \A t \in Threads : InSection(t) => conc.lock = t
    /\ (\A t \in Threads : conc.threads[t].op = "idle")
          => /\ conc.recorded \subseteq conc.file
             /\ conc.recorded \subseteq conc.mem

\* should_emit and record by themselves exclude each other
C21_LockedOpsExclude ==
    \A t, u \in Threads :
        (/\ t # u
         /\ conc.threads[t].op \in {"should_emit", "record"}
         /\ conc.threads[u].op \in {"should_emit", "record"})
            => ~(InSection(t) /\ InSection(u))

----------------------------------------------------------------------------
(* Claims about repeated mutations *)

EntriesFor(items, signal) ==
    Cardinality({i \in 1..Len(items) : items[i].signal = signal})

\* C22 as stated: record applied a second time with the same signal leaves
\* the key sets of the dedup state as the first application left them, and
\* enqueue applied a second time leaves the set of queued signals as the
\* first left it, with a single entry for the signal.
C22_RepeatSafeByKey ==
    /\ rep.records = 2 =>
          /\ DOMAIN rep.state.idempotency_keys
                = DOMAIN rep.once_state.idempotency_keys
          /\ DOMAIN rep.state.cooldown_keys
                = DOMAIN rep.once_state.cooldown_keys
    /\ rep.enqueues = 2 =>
          /\ QueuedSignals(rep.items) = QueuedSignals(rep.once_items)
          /\ EntriesFor(rep.items, rep.signal) = 1

\* the half that holds: record is safe to repeat by key
C22_RecordRepeatSafe ==
    rep.records = 2 =>
        /\ DOMAIN rep.state.idempotency_keys
              = DOMAIN rep.once_state.idempotency_keys
        /\ DOMAIN rep.state.cooldown_keys
              = DOMAIN rep.once_state.cooldown_keys
        /\ idempotency_key(rep.signal) \in DOMAIN rep.state.idempotency_keys

----------------------------------------------------------------------------
(* Claims about the evaluator *)

\* positions (from 0) of the window of the call
EvalPositions == 0..(Len(ev.m1) - 1)

EvalBar(idx) == ev.m1[idx + 1]

\* the bar at idx closes in (previous M15 close, M15 close]
InConfirmationWindow(idx) ==
    /\ close_time(EvalBar(idx)) > EvalClose - M15Minutes
    /\ close_time(EvalBar(idx)) <= EvalClose

Side(direction) == IF direction = "BUY" THEN 1 ELSE 2

\* the oscillator crosses at idx in the direction, with %K in its zone
OscillatorCross(direction, idx) ==
    /\ cross_at_idx(ev.m1, "k", "d", idx)[Side(direction)]
    /\ stoch_in_zone(EvalBar(idx).k,
                     IF direction = "BUY" THEN BuyZone ELSE SellZone)

\* the averages cross at idx in the direction
AverageCross(direction, idx) ==
    cross_at_idx(ev.m1, "fast", "slow", idx)[Side(direction)]

\* the M15 precondition of the direction holds and the regime filter passes
Armed(direction) ==
    /\ m15_context_defined(ev.tail)
    /\ _build_m15_context(ev.tail).order
            = (IF direction = "BUY" THEN "bullish" ELSE "bearish")
    /\ stoch_in_zone(ev.tail.k[2],
                     IF direction = "BUY" THEN BuyZone ELSE SellZone)
    /\ _cross_at(ev.tail.k, ev.tail.d)[Side(direction)]
    /\ _passes_regime_filter(config, ev.tail)

\* the confirmation-bar close times of the returned signals of a scenario
SignalTimes(scenario) ==
    {ev.result[i].m1_bar_time_utc :
        i \in {j \in 1..Len(ev.result) : ev.result[j].scenario = scenario}}

\* the close time of the earliest bar of a set of positions, if any
EarliestClose(S) ==
    IF S = {} THEN {}
    ELSE {close_time(EvalBar(CHOOSE p \in S : \A q \in S : p <= q))}

\* C23: every S1 or S2 signal of evaluate_all for the M15 bar closing at T
\* has a confirmation-bar close time in (T - 15 minutes, T]; no bar that
\* closes at or before the previous M15 close, or after T, gives a signal.
C23_ConfirmationInsideBar ==
    ev.called = "evaluate_all" =>
        \A i \in 1..Len(ev.result) :
            /\ ev.result[i].m1_bar_time_utc > EvalClose - M15Minutes
            /\ ev.result[i].m1_bar_time_utc <= EvalClose
            /\ \E idx \in EvalPositions :
                    /\ InConfirmationWindow(idx)
                    /\ close_time(EvalBar(idx)) = ev.result[i].m1_bar_time_utc

\* a call that returned a signal on a window where the oscillator also
\* crosses in the zone at the bar closing at the previous M15 close
C23_Witness ==
    /\ ev.called = "evaluate_all"
    /\ ev.result # << >>
    /\ \E idx \in EvalPositions :
            /\ close_time(EvalBar(idx)) = EvalClose - M15Minutes
            /\ OscillatorCross(ev.result[1].direction, idx)

LatestIdx == Len(ev.m1) - 1

LowAdx == IsNaN(cyc.tail.adx) \/ cyc.tail.adx < MinAdx

FilterOff == [config EXCEPT !.regime_filter_enabled = FALSE]

----------------------------------------------------------------------------
(* Claims about the risk context *)

\* the signal was built with risk figures
HasRisk == risk.made /\ risk.signal.risk_stop_distance # None

\* the direction's sign: towards profit
Sign == IF risk.direction = "BUY" THEN 1 ELSE -1

\* C27: with the risk context enabled, the invalidation price of a signal is
\* entry minus stop distance for BUY and entry plus stop distance for SELL,
\* stop distance being ATR times the multiplier, and the two take-profit
\* prices are entry plus (BUY) or minus (SELL) stop distance times each
\* reward multiple.
C27_RiskFromEntry ==
    HasRisk =>
        LET stop == risk.atr_value * risk.cfg.atr_stop_multiplier
        IN  /\ risk.signal.risk_stop_distance = stop
            /\ risk.signal.risk_invalidation_price
                    = risk.entry_price - Sign * stop
            /\ risk.signal.risk_tp1_price
                    = risk.entry_price + Sign * stop * risk.cfg.rr_targets[1]
            /\ risk.signal.risk_tp2_price
                    = risk.entry_price + Sign * stop * risk.cfg.rr_targets[2]

\* the part of C27 that holds: stop distance and take-profit prices
C27_StopAndTargets ==
    HasRisk =>
        LET stop == risk.atr_value * risk.cfg.atr_stop_multiplier
        IN  /\ risk.signal.risk_stop_distance = stop
            /\ risk.signal.risk_tp1_price
                    = risk.entry_price + Sign * stop * risk.cfg.rr_targets[1]
            /\ risk.signal.risk_tp2_price
                    = risk.entry_price + Sign * stop * risk.cfg.rr_targets[2]

----------------------------------------------------------------------------
(* Claims about the indicators *)

\* one of the four values _cross_at compares is undefined
CrossUndefined ==
    \/ IsNaN(cross.series_a[cross.idx]) \/ IsNaN(cross.series_a[cross.idx + 1])
    \/ IsNaN(cross.series_b[cross.idx]) \/ IsNaN(cross.series_b[cross.idx + 1])

\* C28: for all series A, B and every index i, above and below are never
\* both true, above for (A, B) equals below for (B, A) (and below for (A, B)
\* equals above for (B, A)), and both are false when i < 1 or one of the
\* four compared values is undefined.
C28_CrossAtSymmetry ==
    cross.called =>
        /\ ~(cross.result[1] /\ cross.result[2])
        /\ cross.result[1] = cross.swapped[2]
        /\ cross.result[2] = cross.swapped[1]
        /\ (cross.idx < 1 => cross.result = <<FALSE, FALSE>>)
        /\ (cross.idx >= 1 /\ CrossUndefined
                => cross.result = <<FALSE, FALSE>>)

\* a cross above out of equal previous values, seen as a cross below by the
\* swapped call
C28_Witness ==
    /\ cross.called
    /\ cross.idx >= 1
    /\ cross.series_a[cross.idx] = cross.series_b[cross.idx]
    /\ cross.result = <<TRUE, FALSE>>
    /\ cross.swapped = <<FALSE, TRUE>>

\* the close series of the call never moves
FlatSeries == \A p \in 1..Len(osc.close) : osc.close[p] = osc.close[1]

\* the rolling high-low range at position p is zero
FlatWindow(p) ==
    /\ p >= osc.k_period
    /\ \A j \in (p - osc.k_period + 1)..p : osc.close[j] = osc.close[p]

Fifty == Frac(50, 1)

\* the first positions at which %K and %D have a full window behind them
FirstK == osc.k_period + osc.slowing - 1
FirstD == FirstK + osc.d_period - 1

\* C29: on a flat close series %K and %D are 50 at every index where they
\* are defined, which is every index with full windows behind it; a zero
\* high-low range gives a raw %K of 50, never an undefined value.
C29_FlatSeriesGivesFifty ==
    osc.called =>
        /\ \A p \in 1..Len(osc.close) :
                FlatWindow(p) => FracEq(osc.raw_k[p], Fifty)
        /\ FlatSeries =>
                \A p \in 1..Len(osc.close) :
                    /\ IsUndefined(osc.percent_k[p]) <=> p < FirstK
                    /\ p >= FirstK => FracEq(osc.percent_k[p], Fifty)
                    /\ IsUndefined(osc.percent_d[p]) <=> p < FirstD
                    /\ p >= FirstD => FracEq(osc.percent_d[p], Fifty)

\* a flat series long enough for %D to be defined, with every period above 1
C29_Witness ==
    /\ osc.called /\ FlatSeries
    /\ osc.k_period > 1 /\ osc.slowing > 1 /\ osc.d_period > 1
    /\ FirstD < Len(osc.close)
    /\ FracEq(osc.percent_d[Len(osc.close)], Fifty)

----------------------------------------------------------------------------
(* Claims about configuration errors *)

NonPositivePeriod == conf.file.lwma_fast <= 0 \/ conf.file.stoch_k <= 0

InvertedZone ==
    \/ conf.file.buy_zone[1] > conf.file.buy_zone[2]
    \/ conf.file.sell_zone[1] > conf.file.sell_zone[2]

MissingColumn ==
    \/ ~(RequiredColumns \subseteq conf.m15_columns)
    \/ ~(RequiredColumns \subseteq conf.m1_columns)

\* C30 as stated: a window that lacks a required OHLC field, a non-positive
\* period or inverted zone bounds give a configuration error raised before
\* evaluation, never an empty result of an evaluation.
C30_ErrorsBeforeEvaluation ==
    /\ (NonPositivePeriod \/ InvertedZone)
            => conf.phase \in {"start", "ValueError"}
    /\ MissingColumn => conf.phase # "evaluated"

\* C30, amended: a non-positive period or inverted zone bounds give a
\* configuration error raised when the configuration is loaded, before any
\* evaluation; a window that lacks a required OHLC field is evaluated and
\* gives the empty result.
C30_ConfigErrorsAtLoad ==
    /\ (NonPositivePeriod \/ InvertedZone)
            => conf.phase \in {"start", "ValueError"}
    /\ (conf.phase = "evaluated" /\ MissingColumn) => conf.result = << >>
    /\ (conf.phase = "evaluated" /\ ~MissingColumn) => conf.result # << >>

\* a start that ended in the error because of an inverted zone alone
C30_Witness ==
    /\ conf.phase = "ValueError"
    /\ InvertedZone /\ ~NonPositivePeriod
    /\ conf.file.lwma_fast < 2

-----------------------------------------------------------------------------
(* Claims about the serialized form of a signal *)

-----------------------------------------------------------------------------
(* Claims about the fetched frames and the primary bars evaluated from them *)

\* the open time of the trailing row of a frame
TrailingRow(frame) == frame[Len(frame)]

\* the rows of a sequence of open times
RowsOf(frame) == {frame[i] : i \in 1..Len(frame)}

\* C32: the trailing row of a fetch is dropped before use: no evaluation
\* (triggers and signals) is made for it or is given it, neither cursor is
\* set from it, the snapshot the pending setups are advanced with is not
\* taken from it, and a fetch of one row or none yields no closed bars.
C32_TrailingRowDropped ==
    /\ \A i \in 1..Len(live.evaluations) :
        LET e == live.evaluations[i]
        IN  /\ TrailingRow(e.frame) \notin RowsOf(e.slice)
            /\ e.close <= TrailingRow(e.frame)
    /\ live.last_processed_m15_close # None =>
        live.last_processed_m15_close <= live.clock
    /\ live.snapshot_bar # None => live.snapshot_bar < live.m1_clock
    /\ live.last_processed_m1_close # None =>
        live.last_processed_m1_close <= live.m1_clock
    /\ \A n \in {0, 1} :
        _closed_bars_only(fetch_candles(live.clock, n)) = << >>

\* the bar before the trailing row was evaluated and a snapshot taken while
\* a later bar was forming
C32_Witness ==
    /\ \E i \in 1..Len(live.evaluations) :
        LET e == live.evaluations[i]
        IN  /\ e.by = "live"
            /\ e.close = TrailingRow(e.frame)
            /\ live.last_processed_m15_close = e.close
    /\ live.snapshot_bar # None
    /\ live.snapshot_bar = live.m1_clock - 1

\* C34: in the startup replay and in live backfill the evaluation for the
\* bar at position p is given exactly the closed primary rows 0..p of the
\* frame, never a later one, and the bars of one handler call are evaluated
\* in ascending time order.
C34_NoLookahead ==
    /\ \A i \in 1..Len(live.evaluations) :
        LET e == live.evaluations[i]
        IN  /\ e.slice = SelectSeq(e.frame, LAMBDA t : t + 1 <= e.close)
            /\ e.close - 1 \in RowsOf(e.slice)
    /\ \A i, j \in 1..Len(live.evaluations) :
        (i < j /\ live.evaluations[i].run = live.evaluations[j].run) =>
            live.evaluations[i].close < live.evaluations[j].close

\* a live call evaluated two bars one after the other, the first on a slice
\* that ends before the last closed row of the frame
C34_Witness ==
    \E i, j \in 1..Len(live.evaluations) :
        /\ i < j
        /\ live.evaluations[i].by = "live"
        /\ live.evaluations[i].run = live.evaluations[j].run
        /\ Len(live.evaluations[i].slice) + 1 < Len(live.evaluations[i].frame)

\* the number of evaluations of a handler call
EvaluationsOfRun(run) ==
    Cardinality({i \in 1..Len(live.evaluations) :
                    live.evaluations[i].run = run})

\* every closed bar is evaluated at most once from the moment the cursor is
\* set, no more bars than the cap are evaluated by one call, and a bar the
\* cap left out is never evaluated
EvaluatedOnce ==
    /\ \A i, j \in 1..Len(live.evaluations) :
        (i < j /\ live.evaluations[j].cursor # None) =>
            live.evaluations[i].close # live.evaluations[j].close
    /\ \A i \in 1..Len(live.evaluations) :
        /\ live.evaluations[i].close \notin live.cut
        /\ live.evaluations[i].by = "live" =>
            EvaluationsOfRun(live.evaluations[i].run)
                <= live.max_m15_backfill_bars

\* the cursor is never unset and never moves backwards
CursorStep ==
    live.last_processed_m15_close # None =>
        /\ live'.last_processed_m15_close # None
        /\ live'.last_processed_m15_close >= live.last_processed_m15_close

\* C38: the cursor never moves backwards; once it is set every closed
\* primary bar is evaluated at most once, also when a call fails part-way;
\* when more bars than max_m15_backfill_bars are pending only the most recent
\* ones are evaluated and the older ones are never evaluated.
C38_CursorMonotone == []EvaluatedOnce /\ [][CursorStep]_vars

\* the cap left a bar out and a later bar was evaluated after it
C38_Witness ==
    /\ live.cut # {}
    /\ \E i \in 1..Len(live.evaluations) :
        /\ live.evaluations[i].cursor # None
        /\ \A c \in live.cut : live.evaluations[i].close > c

-----------------------------------------------------------------------------
(* Claims about the warm-up check of the configuration *)

\* C33: loading rejects every configuration for which a full buffer of
\* closed bars could still have an undefined fast or slow average, %K or %D
\* at one of its last two bars.
C33_InsufficientBufferRejected ==
    (warmup.phase = "evaluated" /\ warmup.rows = warmup.cfg.candle_buffer) =>
        warmup.context = "context"

\* what the check does ensure: with a full buffer of closed bars all four
\* values are defined at the last two bars whenever the %D period is at
\* most 3
C33_SufficientUpToD3 ==
    (warmup.phase = "evaluated" /\ warmup.rows = warmup.cfg.candle_buffer
        /\ warmup.cfg.stoch_d <= 3) =>
        warmup.context = "context"

-----------------------------------------------------------------------------
(* Claims about the single-instance lock *)

\* the processes inside the with statement
Inside == {p \in LockProcs : lck.pc[p] = "inside"}

\* C35: at most one process at a time is inside single_instance_lock for a
\* lock file, under every interleaving of processes that start at the same
\* time: the lock file of a live holder is never removed by another process,
\* and on exit the holder removes only its own lock file.
C35_OneHolder ==
    /\ Cardinality(Inside) <= 1
    /\ ~lck.removed_live
    /\ ~lck.removed_foreign

\* what holds when no lock file is left behind: with the lock file absent at
\* the start, at most one process is inside
C35_OneHolderFromAbsent ==
    lck.taken_over = {} => Cardinality(Inside) <= 1

----------------------------------------------------------------------------
(* Claims about summary merging *)

\* a signal that a merged alert already sent stands for
MergedInto(s, summary) ==
    /\ summary.matched_scenarios # {}
    /\ s.matched_scenarios = {}
    /\ s.symbol = summary.symbol
    /\ s.direction = summary.direction
    /\ s.scenario \in summary.matched_scenarios
    /\ s.m1_bar_time_utc = summary.m1_bar_time_utc

\* C36: once a merged alert has been sent, the idempotency key of every
\* signal it stands for is recorded, and none of those signals is sent on its
\* own afterwards.
C36_ConstituentsRecorded ==
    /\ \A s \in summ.last_merged :
            idempotency_key(s) \in DOMAIN summ.dedup.idempotency_keys
    /\ \A i, j \in 1..Len(summ.sent) :
            i < j => ~MergedInto(summ.sent[j], summ.sent[i])

----------------------------------------------------------------------------
(* Claims about the pending map of a symbol *)

\* C37: all pending setups of a symbol have the same direction, no two of
\* them share a (direction, mode) key, and there are never more than two.
C37_OneDirectionPending ==
    /\ \A i, j \in 1..Len(pending_setups) :
            pending_setups[i].direction = pending_setups[j].direction
    /\ \A i, j \in 1..Len(pending_setups) :
            i # j => SetupKey(pending_setups[i]) # SetupKey(pending_setups[j])
    /\ Len(pending_setups) <= 2

\* C37 happens: two setups are pending, one of them registered at a later
\* primary bar into the map that already held the other
C37_Witness ==
    /\ Len(pending_setups) = 2
    /\ pending_setups[1].m15_trigger_time_utc
            # pending_setups[2].m15_trigger_time_utc

----------------------------------------------------------------------------
(* Claims about a repeated advance *)

\* C40: a setup that a snapshot has advanced is left as it is by a second
\* advance with the same snapshot: the second call keeps it, in the state the
\* first call gave it, and emits nothing.
C40_AdvanceTwiceAsOnce ==
    adv.calls = 2 => adv.twice = adv.once

\* C40 happens: the first call moved the setup to the oscillator stage and
\* the second call was made with the same snapshot
C40_Witness ==
    /\ adv.calls = 2
    /\ adv.pending.state = "WAIT_M1_LWMA"
    /\ adv.once.pending.state = "WAIT_M1_STOCH"
    /\ ~adv.cfg.require_opposite_zone_on_lwma_cross

----------------------------------------------------------------------------
(* Claims about the draining of the failure queue *)

SignalsOf(items) == [i \in 1..Len(items) |-> items[i].signal]

\* s holds elements of t only, in the order they have in t
IsSubsequence(s, t) ==
    \E pos \in [1..Len(s) -> 1..Len(t)] :
        /\ \A i \in 1..Len(s) : s[i] = t[pos[i]]
        /\ \A i, j \in 1..Len(s) : i < j => pos[i] < pos[j]

\* C39: an item in the queue has been through fewer than
\* max_failed_retry_count calls of retry_failed_queue, whatever the transport
\* answered, so it is gone after that many calls; and the queue a call leaves
\* holds items of the queue it found only, in their order.
C39_QueueDrains ==
    /\ \A i \in 1..Len(notifier.items) :
            notifier.items[i].fails < notifier.cfg.max_failed_retry_count
    /\ ncall.op = "retry_failed_queue" =>
            /\ Len(notifier.items) <= Len(ncall.before)
            /\ IsSubsequence(SignalsOf(notifier.items), SignalsOf(ncall.before))

\* C39 happens: in a call where no post succeeded, an item that had failed
\* in two earlier calls is dropped and a newer item stays in the queue
C39_Witness ==
    /\ ncall.op = "retry_failed_queue"
    /\ Len(ncall.fates) = 2
    /\ ncall.fates[1].fate = "dropped"
    /\ ncall.fates[1].item.fails = 3
    /\ ncall.fates[2].fate = "kept"
    /\ notifier.items = <<ncall.fates[2].item>>

====
